---------------------------- MODULE Spec2Model ----------------------------
(***************************************************************************)
(* Model of the Mermaid class-diagram viewer (src/script.js, the last of   *)
(* the concatenated revisions, lines 1320-2136): the render life cycle,    *)
(* the Connection Index, the Drag Controller, the pan gate and the Edge    *)
(* Router with its rectangle geometry.                                     *)
(*                                                                         *)
(* JavaScript numbers are IEEE-754 double-precision numbers, and so are    *)
(* the model's: a number other than 0 is <<sg, e, h, l>>, which stands for *)
(* sg * (h * 2^25 + l) * 2^e with sg 1 or -1.  A normal number has a       *)
(* significand of 53 bits (2^27 <= h < 2^28, 0 <= l < 2^25) and an         *)
(* exponent e from -1074 to 971; a subnormal number has e = -1074 and      *)
(* h < 2^27.  0 is <<0, 0, 0, 0>> and -0 is <<0, -1, 0, 0>>, NaN is        *)
(* <<2, 0, 0, 0>> and the infinities are <<3, 0, 0, 0>> and                *)
(* <<-3, 0, 0, 0>>.  Every operation (+, -, *, /, Math.sqrt) rounds its    *)
(* exact result to the nearest double, ties to the even significand, as    *)
(* the code's does: a result beyond the largest double is an infinity, a   *)
(* result below 2^-1022 is rounded among the subnormal numbers or to a     *)
(* zero, and a zero has the sign the operation gives it.  A comparison     *)
(* which the rounding decides so goes the way it goes in the code.         *)
(* A string is a sequence of characters.  A character is a one-character   *)
(* string, or, for a code point this module's text cannot hold, the name   *)
(* of the code point: "U+00A0" is the no-break space.  Strings the code    *)
(* builds from numbers (path data, translate(...) attributes) are tuples   *)
(* of their textual pieces, a number standing for its own text: a double   *)
(* printed and parsed again is the same double, but -0, which prints as    *)
(* "0".                                                                    *)
(* A value the code names with const and uses several times is passed on   *)
(* as an operator argument, so that it is computed once.                   *)
(***************************************************************************)
EXTENDS Integers, Sequences, FiniteSets, TLC

\* JavaScript null / undefined where an object is expected.
NULL == [null |-> TRUE]
\* The result of getAttribute for a missing attribute (a string is a sequence
\* of characters, which this is not).
NoAttr == <<"null">>
\* NaN, the number parseFloat gives for text that is no number, and Infinity
\* with the sign sg.
NaN == <<2, 0, 0, 0>>
Infinity(sg) == <<3 * sg, 0, 0, 0>>

-----------------------------------------------------------------------------
(* ---------------------------- numbers --------------------------------- *)

\* The numbers 0 and -0, and the zero with the sign sg.
Zero == <<0, 0, 0, 0>>
NegZero == <<0, -1, 0, 0>>
ZeroOf(sg) == IF sg < 0 THEN NegZero ELSE Zero

\* The sign of x, 1 or -1, that of a zero or an infinity included.
Sgn(x) == IF x[1] = 0 THEN 1 + 2 * x[2] ELSE IF x[1] < 0 THEN -1 ELSE 1

Abs(x) == IF x < 0 THEN -x ELSE x

\* floor(log2(n)) for 0 < n < 2^31, known to lie in lo..hi.
RECURSIVE Log2In(_, _, _)
Log2In(n, lo, hi) ==
    IF lo = hi THEN lo
    ELSE IF n < 2^((lo + hi + 1) \div 2) THEN Log2In(n, lo, (lo + hi + 1) \div 2 - 1)
    ELSE Log2In(n, (lo + hi + 1) \div 2, hi)
Log2(n) == Log2In(n, 0, 30)

\* The largest r in lo..hi with r * r <= n.
RECURSIVE ISqrtIn(_, _, _)
ISqrtIn(n, lo, hi) ==
    IF lo = hi THEN lo
    ELSE IF ((lo + hi + 1) \div 2) * ((lo + hi + 1) \div 2) <= n
    THEN ISqrtIn(n, (lo + hi + 1) \div 2, hi)
    ELSE ISqrtIn(n, lo, (lo + hi + 1) \div 2 - 1)

\* The integer part of the square root of the integer n, 0 <= n < 2^30.
ISqrt(n) == ISqrtIn(n, 0, 32767)

\* A result before it is rounded is sg * (H * 2^28 + L) * 2^e with
\* 2^27 <= H < 2^28 and 0 <= L < 2^28: 56 bits, the 53 of the significand and
\* three more, the last of which is set when any bit beyond it is (sticky).

\* L with its last bit set when st holds.
Sticky(L, st) == IF st /\ L % 2 = 0 THEN L + 1 ELSE L

\* Round to nearest, ties to even: whether the three bits beyond the
\* significand round it up.
RoundsUp(L) == L % 8 > 4 \/ (L % 8 = 4 /\ (L \div 8) % 2 = 1)

\* The number with significand h * 2^25 + l, l having been raised by 0 or 1.
Bumped(sg, e, h, l) ==
    IF l < 2^25 THEN <<sg, e, h, l>>
    ELSE IF h + 1 < 2^28 THEN <<sg, e, h + 1, 0>>
    ELSE <<sg, e + 1, 2^27, 0>>

\* sg * (H * 2^28 + L) * 2^e rounded to a significand ending at 2^(e + 3).
Rounded(sg, e, H, L) ==
    Bumped(sg, e + 3, H, (L \div 8) + (IF RoundsUp(L) THEN 1 ELSE 0))
RoundedPair(sg, e, s) == Rounded(sg, e, s[1], s[2])

\* The 56 bits H, L moved right by d > 0 places, the bits lost kept as sticky.
ShiftedRight(H, L, d) ==
    IF d < 28
    THEN <<H \div 2^d, Sticky((L \div 2^d) + (H % 2^d) * 2^(28 - d), L % 2^d # 0)>>
    ELSE IF d < 56
    THEN <<0, Sticky(H \div 2^(d - 28), L # 0 \/ H % 2^(d - 28) # 0)>>
    ELSE <<0, 1>>

\* Overflow: a rounded result beyond the largest double, (2^53 - 1) * 2^971,
\* is the infinity of its sign.
Capped(x) == IF x[2] > 971 THEN Infinity(x[1]) ELSE x

\* Underflow: a rounded result with nothing left of it is the zero of its
\* sign.
Signed(x) == IF x[3] = 0 /\ x[4] = 0 THEN ZeroOf(x[1]) ELSE x

\* The double nearest to sg * (H * 2^28 + L) * 2^e.  Below 2^-1022 the
\* doubles are 2^-1074 apart (subnormal numbers): the result is rounded
\* there, once, and has a significand of fewer bits.
Pack(sg, e, H, L) ==
    IF e < -1077
    THEN Signed(RoundedPair(sg, -1077, ShiftedRight(H, L, -1077 - e)))
    ELSE IF e > 967 THEN Capped(Rounded(sg, e, H, L))
    ELSE Rounded(sg, e, H, L)

\* The sum H, L of two aligned magnitudes, which may have a 57th bit.
Carried(sg, e, H, L) ==
    IF H < 2^28 THEN Pack(sg, e, H, L)
    ELSE Pack(sg, e + 1, H \div 2, Sticky(L \div 2 + (H % 2) * 2^27, L % 2 = 1))

SumOf(sg, e, H1, L1, y) ==
    Carried(sg, e, H1 + y[1] + ((L1 + y[2]) \div 2^28), (L1 + y[2]) % 2^28)

\* The 56 bits H, L moved left by k < 28 places.
ShiftedLeft(sg, e, H, L, k) ==
    IF k = 0 THEN Pack(sg, e, H, L)
    ELSE Pack(sg, e - k, H * 2^k + L \div 2^(28 - k), (L % 2^(28 - k)) * 2^k)

\* The difference H, L of two aligned magnitudes, with its leading zeros.
Normalized(sg, e, H, L) ==
    IF H # 0 THEN ShiftedLeft(sg, e, H, L, 27 - Log2(H))
    ELSE IF L # 0 THEN ShiftedLeft(sg, e - 28, L, 0, 27 - Log2(L))
    ELSE Zero

DiffOf(sg, e, H1, L1, y) ==
    Normalized(sg, e, H1 - y[1] - (IF L1 < y[2] THEN 1 ELSE 0), (L1 - y[2]) % 2^28)

\* The 56 bits of the magnitude of y, aligned to the exponent e >= y[2].
Aligned(y, e) ==
    IF e = y[2] THEN <<y[3], 8 * y[4]>> ELSE ShiftedRight(y[3], 8 * y[4], e - y[2])

\* A subnormal number other than 0 written with a significand of 53 bits, its
\* exponent then being below -1074: what multiplication, division and the
\* square root start from.
Raised(x, k) ==
    <<x[1], x[2] - k, x[3] * 2^k + x[4] \div 2^(25 - k), (x[4] % 2^(25 - k)) * 2^k>>
RECURSIVE Normal(_)
Normal(x) ==
    IF x[3] >= 2^27 THEN x
    ELSE IF x[3] < 2^14 THEN Normal(Raised(x, 13))
    ELSE Raised(x, 27 - Log2(x[3]))

\* |x| < |y| for x and y other than 0.
MagLt(x, y) ==
    \/ x[2] < y[2]
    \/ x[2] = y[2] /\ (x[3] < y[3] \/ (x[3] = y[3] /\ x[4] < y[4]))

\* sg * (|x| + |y|) and sg * (|x| - |y|), the exponent of x not below that of y.
AddMag(sg, x, y) == SumOf(sg, x[2] - 3, x[3], 8 * x[4], Aligned(y, x[2]))
SubMag(sg, x, y) == DiffOf(sg, x[2] - 3, x[3], 8 * x[4], Aligned(y, x[2]))

\* Whether x is neither NaN nor an infinity.
IsFinite(x) == x[1] * x[1] <= 1

\* x + y where x or y is NaN or an infinity.
AddSpecial(x, y) ==
    IF x = NaN \/ y = NaN THEN NaN
    ELSE IF IsFinite(y) THEN x
    ELSE IF IsFinite(x) \/ x = y THEN y
    ELSE NaN

\* x + y
FAdd(x, y) ==
    IF x[1] = 0 THEN (IF y[1] = 0 /\ x[2] = 0 THEN x ELSE y)
    ELSE IF y[1] = 0 THEN x
    ELSE IF ~(IsFinite(x) /\ IsFinite(y)) THEN AddSpecial(x, y)
    ELSE IF x[1] = y[1]
    THEN (IF x[2] >= y[2] THEN AddMag(x[1], x, y) ELSE AddMag(x[1], y, x))
    ELSE IF MagLt(y, x) THEN SubMag(x[1], x, y)
    ELSE IF MagLt(x, y) THEN SubMag(y[1], y, x)
    ELSE Zero

\* -x, x - y, Math.abs(x)
FNeg(x) ==
    IF x = NaN THEN NaN
    ELSE IF x[1] = 0 THEN ZeroOf(-Sgn(x))
    ELSE <<-x[1], x[2], x[3], x[4]>>
FSub(x, y) == FAdd(x, FNeg(y))
FAbs(x)    == IF x[1] = 0 THEN Zero ELSE <<Abs(x[1]), x[2], x[3], x[4]>>

\* x < y, x <= y, x === y: all false when x or y is NaN; 0 and -0 are equal.
FLt(x, y) ==
    IF x[1] # y[1] THEN x[1] < y[1] /\ x # NaN /\ y # NaN
    ELSE IF x[1] = 1 THEN MagLt(x, y)
    ELSE x[1] = -1 /\ MagLt(y, x)
FLe(x, y) == x # NaN /\ y # NaN /\ ~FLt(y, x)
FEq(x, y) == x # NaN /\ (x = y \/ (x[1] = 0 /\ y[1] = 0))

\* Math.min(x, y), Math.max(x, y): -0 counts as less than 0.
FMin(x, y) ==
    IF x = NaN \/ y = NaN THEN NaN
    ELSE IF FLt(y, x) \/ (x = Zero /\ y = NegZero) THEN y ELSE x
FMax(x, y) ==
    IF x = NaN \/ y = NaN THEN NaN
    ELSE IF FLt(x, y) \/ (x = NegZero /\ y = Zero) THEN y ELSE x

\* The significand h * 2^25 + l in four limbs of 14 bits, the lowest first.
Limbs(h, l) ==
    <<l % 2^14, (l \div 2^14) + (h % 8) * 2^11, (h \div 8) % 2^14, h \div 2^17>>

\* Whether x is a power of two, but for its sign.
IsPowerOfTwo(x) == x[3] = 2^27 /\ x[4] = 0

\* The product of two significands, limb by limb: the carries are passed up
\* (t), the three lowest limbs kept only as sticky (st), and the 56 leading
\* bits taken from the limbs p3 to p7, k being the bits of p3 left out.
MulTop(sg, e, st, p3, p4, p5, p6, p7, k) ==
    Pack(sg, e + 42 + k,
         (p5 \div 2^k) + p6 * 2^(14 - k) + p7 * 2^(28 - k),
         Sticky((p3 \div 2^k) + p4 * 2^(14 - k) + (p5 % 2^k) * 2^(28 - k),
                st \/ p3 % 2^k # 0))
Mul7(sg, e, st, p3, p4, p5, t6) ==
    MulTop(sg, e, st, p3, p4, p5, t6 % 2^14, t6 \div 2^14,
           IF t6 \div 2^14 >= 128 THEN 8 ELSE 7)
Mul6(sg, e, st, p3, p4, t5, c6) ==
    Mul7(sg, e, st, p3, p4, t5 % 2^14, c6 + t5 \div 2^14)
Mul5(sg, e, st, p3, t4, c5, c6) ==
    Mul6(sg, e, st, p3, t4 % 2^14, c5 + t4 \div 2^14, c6)
Mul4(sg, e, st, t3, c4, c5, c6) ==
    Mul5(sg, e, st, t3 % 2^14, c4 + t3 \div 2^14, c5, c6)
Mul3(sg, e, st, t2, c3, c4, c5, c6) ==
    Mul4(sg, e, st \/ t2 % 2^14 # 0, c3 + t2 \div 2^14, c4, c5, c6)
Mul2(sg, e, st, t1, c2, c3, c4, c5, c6) ==
    Mul3(sg, e, st \/ t1 % 2^14 # 0, c2 + t1 \div 2^14, c3, c4, c5, c6)
MulLimbs(sg, e, a, b) ==
    Mul2(sg, e, (a[1] * b[1]) % 2^14 # 0,
         a[1] * b[2] + a[2] * b[1] + (a[1] * b[1]) \div 2^14,
         a[1] * b[3] + a[2] * b[2] + a[3] * b[1],
         a[1] * b[4] + a[2] * b[3] + a[3] * b[2] + a[4] * b[1],
         a[2] * b[4] + a[3] * b[3] + a[4] * b[2],
         a[3] * b[4] + a[4] * b[3],
         a[4] * b[4])

\* x * y where x or y is NaN or an infinity.
MulSpecial(x, y) ==
    IF x = NaN \/ y = NaN \/ x[1] = 0 \/ y[1] = 0 THEN NaN
    ELSE Infinity(Sgn(x) * Sgn(y))

\* The significand of x with the sign sg and the exponent e: x times or over
\* a power of two, which is exact within the exponents of a double.
Scaled(x, sg, e) ==
    IF e < -1074 \/ e > 971 THEN Pack(sg, e - 3, x[3], 8 * x[4])
    ELSE <<sg, e, x[3], x[4]>>

\* x * y for x and y with significands of 53 bits.
MulNormal(x, y) ==
    IF IsPowerOfTwo(y) THEN Scaled(x, x[1] * y[1], x[2] + y[2] + 52)
    ELSE IF IsPowerOfTwo(x) THEN Scaled(y, x[1] * y[1], x[2] + y[2] + 52)
    ELSE MulLimbs(x[1] * y[1], x[2] + y[2], Limbs(x[3], x[4]), Limbs(y[3], y[4]))

\* x * y
FMul(x, y) ==
    IF ~(IsFinite(x) /\ IsFinite(y)) THEN MulSpecial(x, y)
    ELSE IF x[1] = 0 \/ y[1] = 0 THEN ZeroOf(Sgn(x) * Sgn(y))
    ELSE IF x[3] < 2^27 \/ y[3] < 2^27 THEN MulNormal(Normal(x), Normal(y))
    ELSE MulNormal(x, y)

\* a >= b, and a - b, for numbers in four limbs.
LimbsGe(a, b) ==
    \/ a[4] > b[4]
    \/ a[4] = b[4] /\ (\/ a[3] > b[3]
                       \/ a[3] = b[3] /\ (\/ a[2] > b[2]
                                          \/ a[2] = b[2] /\ a[1] >= b[1]))
Sub3(a, b, r0, r1, u2) == <<r0, r1, u2 % 2^14, a[4] - b[4] + u2 \div 2^14>>
Sub2(a, b, r0, u1)     == Sub3(a, b, r0, u1 % 2^14, a[3] - b[3] + u1 \div 2^14)
Sub1(a, b, u0)         == Sub2(a, b, u0 % 2^14, a[2] - b[2] + u0 \div 2^14)
LimbsSub(a, b)         == Sub1(a, b, a[1] - b[1])

\* r * 2^14 - q * d for numbers in four limbs, the result being below 2^56.
Less3(r, d, q, x0, x1, u2) ==
    <<x0, x1, u2 % 2^14, r[3] + r[4] * 2^14 - q * d[4] + u2 \div 2^14>>
Less2(r, d, q, x0, u1) ==
    Less3(r, d, q, x0, u1 % 2^14, r[2] - q * d[3] + u1 \div 2^14)
Less1(r, d, q, u0) ==
    Less2(r, d, q, u0 % 2^14, r[1] - q * d[2] + u0 \div 2^14)
LessTimes(r, d, q) == Less1(r, d, q, -(q * d[1]))

\* <<q, r>> with q raised and r lowered by d until r < d.
RECURSIVE Settled(_, _, _)
Settled(q, r, d) ==
    IF LimbsGe(r, d) THEN Settled(q + 1, LimbsSub(r, d), d) ELSE <<q, r>>

\* The next 14 bits q of the quotient r / d for r < d, 2^52 <= d < 2^53, and
\* the remainder r * 2^14 - q * d.  The leading 25 bits of r over the leading
\* 17 of d, raised by one, never exceeds q and is at most 1 below it.
Guess(r, d) ==
    ((r[4] * 2^14 + r[3]) * 2^6) \div ((d[4] * 2^14 + d[3]) \div 2^8 + 1)
DigitFrom(r, d, q) == Settled(q, LessTimes(r, d, q), d)
Digit(r, d) == DigitFrom(r, d, Guess(r, d))

\* The quotient of two significands: its leading bit q0 and four digits of
\* 14 bits, the remainder kept as sticky.
Quotient(sg, e, q0, H, L, st) ==
    IF q0 = 0 THEN Pack(sg, e - 56, H, Sticky(L, st))
    ELSE Pack(sg, e - 55, 2^27 + H \div 2,
              Sticky((H % 2) * 2^27 + L \div 2, st \/ L % 2 = 1))
Div4(sg, e, q0, H, q3, s) ==
    Quotient(sg, e, q0, H, q3 * 2^14 + s[1], s[2] # <<0, 0, 0, 0>>)
Div3(sg, e, q0, d, H, s) == Div4(sg, e, q0, H, s[1], Digit(s[2], d))
Div2(sg, e, q0, d, q1, s) == Div3(sg, e, q0, d, q1 * 2^14 + s[1], Digit(s[2], d))
Div1(sg, e, q0, d, s) == Div2(sg, e, q0, d, s[1], Digit(s[2], d))
DivLimbs(sg, e, a, d) ==
    IF LimbsGe(a, d) THEN Div1(sg, e, 1, d, Digit(LimbsSub(a, d), d))
    ELSE Div1(sg, e, 0, d, Digit(a, d))

\* x / y where x or y is NaN or an infinity, or y is 0 or -0.
DivSpecial(x, y) ==
    IF x = NaN \/ y = NaN THEN NaN
    ELSE IF IsFinite(x) THEN (IF y[1] # 0 THEN ZeroOf(Sgn(x) * Sgn(y))
                              ELSE IF x[1] = 0 THEN NaN
                              ELSE Infinity(Sgn(x) * Sgn(y)))
    ELSE IF IsFinite(y) THEN Infinity(Sgn(x) * Sgn(y))
    ELSE NaN

\* x / y for x and y with significands of 53 bits.
DivNormal(x, y) ==
    IF IsPowerOfTwo(y) THEN Scaled(x, x[1] * y[1], x[2] - y[2] - 52)
    ELSE DivLimbs(x[1] * y[1], x[2] - y[2], Limbs(x[3], x[4]), Limbs(y[3], y[4]))

\* x / y
FDiv(x, y) ==
    IF y[1] = 0 \/ ~(IsFinite(x) /\ IsFinite(y)) THEN DivSpecial(x, y)
    ELSE IF x[1] = 0 THEN ZeroOf(Sgn(x) * Sgn(y))
    ELSE IF x[3] < 2^27 \/ y[3] < 2^27 THEN DivNormal(Normal(x), Normal(y))
    ELSE DivNormal(x, y)

\* The square root of n = (h * 2^26 + l) * 2^58, 2^26 <= h < 2^28, by halves
\* (Zimmermann): from the root s0 of the leading 28 bits and its remainder r0
\* to the root s1 of the leading 56 bits, and from s1 and its remainder r1
\* to the root s1 * 2^28 + q of n, each time by a division by twice the root
\* so far and one step down when the remainder would be negative.

\* The root of s1 * 2^28 + q, q the quotient and u the remainder of
\* r1 * 2^28 over 2 * s1: A * 2^28 - T is the remainder u * 2^28 - q * q.
SqrtLow(e, s1, q, A, T) ==
    IF A < 0 \/ (A = 0 /\ T > 0)
    THEN Pack(1, e, IF q = 0 THEN s1 - 1 ELSE s1,
              Sticky(IF q = 0 THEN 2^28 - 1 ELSE q - 1,
                     (2 * q - 1 - T) % 2^28 # 0
                       \/ A + 2 * s1 + (2 * q - 1 - T) \div 2^28 # 0))
    ELSE Pack(1, e, s1, Sticky(q, A # 0 \/ T # 0))
SqrtCross(e, s1, q, u, qh, ql, m) ==
    SqrtLow(e, s1, q, u - qh * qh - (2 * qh * ql) \div 2^14 - m \div 2^28, m % 2^28)
SqrtSquare(e, s1, q, u, qh, ql) ==
    SqrtCross(e, s1, q, u, qh, ql, ((2 * qh * ql) % 2^14) * 2^14 + ql * ql)
SqrtUpper(e, s1, q, u) == SqrtSquare(e, s1, q, u, q \div 2^14, q % 2^14)
SqrtDigits(e, s1, t) ==
    SqrtUpper(e, s1, t[1], t[2][4] * 2^18 + t[2][3] * 2^4 + t[2][2] \div 2^10)
SqrtSecond(e, s1, q1, s) == SqrtDigits(e, s1, <<q1 * 2^14 + s[1], s[2]>>)
SqrtBy(e, s1, d, s) == SqrtSecond(e, s1, s[1], Digit(s[2], d))
SqrtOver(e, s1, r1) ==
    IF r1 = 2 * s1 THEN SqrtUpper(e, s1, 2^28, 0)
    ELSE SqrtBy(e, s1, Limbs(s1, 0),
                Digit(Limbs(r1 \div 2, (r1 % 2) * 2^24), Limbs(s1, 0)))
SqrtFix(e, s1, r1) ==
    IF r1 < 0 THEN SqrtOver(e, s1 - 1, r1 + 2 * s1 - 1) ELSE SqrtOver(e, s1, r1)
SqrtMid(e, s0, q, u, a0) == SqrtFix(e, s0 * 2^14 + q, u * 2^14 + a0 - q * q)
SqrtFirst(e, s0, r0, l) ==
    SqrtMid(e, s0, (r0 * 2^14 + l \div 2^12) \div (2 * s0),
            (r0 * 2^14 + l \div 2^12) % (2 * s0), (l % 2^12) * 4)
SqrtHalves(e, h, l, s0) == SqrtFirst(e, s0, h - s0 * s0, l)
SqrtOf(e, h, l) == SqrtHalves(e, h, l, ISqrt(h))

\* Math.sqrt(x) for x > 0 with a significand of 53 bits.
SqrtNormal(x) ==
    IF x[2] % 2 = 0
    THEN SqrtOf(x[2] \div 2 - 29, x[3] \div 2, (x[3] % 2) * 2^25 + x[4])
    ELSE SqrtOf((x[2] - 1) \div 2 - 29, x[3], 2 * x[4])

\* Math.sqrt(x)
FSqrt(x) ==
    IF x[1] = 0 \/ x[1] = 3 THEN x
    ELSE IF x[1] # 1 THEN NaN
    ELSE IF x[3] < 2^27 THEN SqrtNormal(Normal(x))
    ELSE SqrtNormal(x)

\* The number of the integer n, |n| < 2^31.
NumOf(sg, n, k) ==
    IF k <= 27 THEN <<sg, k - 52, n * 2^(27 - k), 0>>
    ELSE <<sg, k - 52, n \div 2^(k - 27), (n % 2^(k - 27)) * 2^(52 - k)>>
Num(n) == IF n = 0 THEN Zero ELSE NumOf(IF n < 0 THEN -1 ELSE 1, Abs(n), Log2(Abs(n)))

\* The number a decimal literal n / d stands for, d a power of ten: the
\* double nearest to the quotient.
Dec(n, d) == FDiv(Num(n), Num(d))

\* Math.sqrt(x * x + y * y)
Hypot(x, y) == FSqrt(FAdd(FMul(x, x), FMul(y, y)))


-----------------------------------------------------------------------------
(* ---------------------------- strings --------------------------------- *)
\* A string is a sequence of characters: one-character strings and, for the
\* code points written here by name, strings such as "U+00A0".

\* String.prototype.startsWith
StartsWith(s, p) == Len(p) <= Len(s) /\ SubSeq(s, 1, Len(p)) = p

\* String.prototype.includes
Includes(s, sub) ==
    \E i \in 1..(Len(s) - Len(sub) + 1) : SubSeq(s, i, i + Len(sub) - 1) = sub

\* String.prototype.split on a one-character separator: the pieces in order.
RECURSIVE SplitFrom(_, _, _, _)
SplitFrom(s, sep, i, cur) ==
    IF i > Len(s) THEN <<cur>>
    ELSE IF s[i] = sep THEN <<cur>> \o SplitFrom(s, sep, i + 1, <<>>)
    ELSE SplitFrom(s, sep, i + 1, Append(cur, s[i]))
Split(s, sep) == SplitFrom(s, sep, 1, <<>>)

\* The white space and line terminators String.prototype.trim removes:
\* tab, line feed, line tabulation, form feed, carriage return, space,
\* no-break space, ogham space mark, the spaces U+2000 to U+200A, line and
\* paragraph separator, narrow no-break space, medium mathematical space,
\* ideographic space and the byte order mark.
WhiteSpace ==
    {"\t", "\n", "U+000B", "\f", "\r", " ", "U+00A0", "U+1680",
     "U+2000", "U+2001", "U+2002", "U+2003", "U+2004", "U+2005", "U+2006",
     "U+2007", "U+2008", "U+2009", "U+200A", "U+2028", "U+2029", "U+202F",
     "U+205F", "U+3000", "U+FEFF"}

\* String.prototype.trim
RECURSIVE TrimLeft(_)
TrimLeft(s) == IF s # <<>> /\ Head(s) \in WhiteSpace THEN TrimLeft(Tail(s)) ELSE s
RECURSIVE TrimRight(_)
TrimRight(s) ==
    IF s # <<>> /\ s[Len(s)] \in WhiteSpace
    THEN TrimRight(SubSeq(s, 1, Len(s) - 1)) ELSE s
Trim(s) == TrimRight(TrimLeft(s))

-----------------------------------------------------------------------------
(* ---------------------------- geometry -------------------------------- *)

Pt(x, y) == [x |-> x, y |-> y]

\* The value of a transform attribute is NULL (no attribute) or a record
\* [x, y] for the text translate(x,y); an argument that is no number, and the
\* y of the one-argument form, is NaN.

\* `${x}`, the text of the number x, held as the number parseFloat reads from
\* it: x itself, the shortest text of a double being read back as that
\* double, except that -0 prints as "0".
Printed(x) == IF x = NegZero THEN Zero ELSE x
PrintedPt(p) == Pt(Printed(p.x), Printed(p.y))

\* parseFloat(text) || 0: parseFloat of a number's own text is that number,
\* and of a text that is no number, or of a missing argument, NaN; "NaN || 0"
\* and "-0 || 0" are 0.
parsedOrZero(v) == IF v = NaN \/ v[1] = 0 THEN Zero ELSE v

\* Helper to get a node's transform values.
getNodeTransform(node) ==
    IF node.transform = NULL THEN Pt(Zero, Zero)
    ELSE Pt(parsedOrZero(node.transform.x), parsedOrZero(node.transform.y))

Half(q) == FDiv(q, Num(2))

\* The centre of the box bbox moved by transform.
centerOf(bbox, transform) ==
    Pt(FAdd(FAdd(bbox.x, Half(bbox.width)), transform.x),
       FAdd(FAdd(bbox.y, Half(bbox.height)), transform.y))

getNodeCenterPosition(node) == centerOf(node.bbox, getNodeTransform(node))

\* The rectangle of the box bbox moved by transform.
rectOf(bbox, transform) ==
    [x       |-> FAdd(bbox.x, transform.x),
     y       |-> FAdd(bbox.y, transform.y),
     width   |-> bbox.width,
     height  |-> bbox.height,
     centerX |-> FAdd(FAdd(bbox.x, Half(bbox.width)), transform.x),
     centerY |-> FAdd(FAdd(bbox.y, Half(bbox.height)), transform.y),
     left    |-> FAdd(bbox.x, transform.x),
     right   |-> FAdd(FAdd(bbox.x, bbox.width), transform.x),
     top     |-> FAdd(bbox.y, transform.y),
     bottom  |-> FAdd(FAdd(bbox.y, bbox.height), transform.y)]

getNodeRect(node) == rectOf(node.bbox, getNodeTransform(node))

\* One candidate crossing: NULL, or its distance along the ray and the point.
Cand(dist, pt) == [dist |-> dist, pt |-> pt]

\* let minDist = Infinity while closestPoint is null
minDistOf(best) == IF best = NULL THEN Infinity(1) ELSE best.dist

\* "if (dist < minDist) { minDist = dist; closestPoint = ... }" over the
\* candidates in the order the code tests them; NULL when none qualifies.
RECURSIVE Closest(_, _)
Closest(cands, best) ==
    IF cands = <<>> THEN best
    ELSE Closest(Tail(cands),
                 IF Head(cands) # NULL /\ FLt(Head(cands).dist, minDistOf(best))
                 THEN Head(cands) ELSE best)

\* The crossing at parameter t, whose free coordinate is v, with the line
\* x = line (vertical) or y = line: kept when v lies between lo and hi and,
\* for unit, t is in [0, 1]; its distance is t * norm, norm being
\* Math.sqrt(dx * dx + dy * dy).
Kept(unit, t, lo, hi, v, norm, vertical, line) ==
    IF (~unit \/ (FLe(Zero, t) /\ FLe(t, Num(1)))) /\ FLe(lo, v) /\ FLe(v, hi)
    THEN Cand(FMul(t, norm), IF vertical THEN Pt(line, v) ELSE Pt(v, line))
    ELSE NULL

\* t for the crossing with a line at coordinate line, from coordinate from,
\* the ray advancing by d in that coordinate.
ParamAt(line, from, d) == FDiv(FSub(line, from), d)

\* The candidate at parameter t on the vertical line x = edgeX.
CrossXAt(rect, fromY, dy, edgeX, unit, t, norm) ==
    Kept(unit, t, rect.top, rect.bottom, FAdd(fromY, FMul(t, dy)), norm, TRUE, edgeX)

\* Crossing of the ray with the vertical line x = edgeX, kept when its y lies
\* on the rectangle's side.
CrossX(rect, fromX, fromY, dx, dy, edgeX, unit, norm) ==
    CrossXAt(rect, fromY, dy, edgeX, unit, ParamAt(edgeX, fromX, dx), norm)

\* The candidate at parameter t on the horizontal line y = edgeY.
CrossYAt(rect, fromX, dx, edgeY, unit, t, norm) ==
    Kept(unit, t, rect.left, rect.right, FAdd(fromX, FMul(t, dx)), norm, FALSE, edgeY)

\* Crossing of the ray with the horizontal line y = edgeY.
CrossY(rect, fromX, fromY, dx, dy, edgeY, unit, norm) ==
    CrossYAt(rect, fromX, dx, edgeY, unit, ParamAt(edgeY, fromY, dy), norm)

\* The crossings of the ray cast outward from a point inside, norm being
\* Math.sqrt(dx * dx + dy * dy).
insideCrossings(rect, fromX, fromY, dx, dy, norm) ==
    Closest(<<IF FLt(dx, Zero)
              THEN CrossX(rect, fromX, fromY, dx, dy, rect.left, FALSE, norm) ELSE NULL,
              IF FLt(Zero, dx)
              THEN CrossX(rect, fromX, fromY, dx, dy, rect.right, FALSE, norm) ELSE NULL,
              IF FLt(dy, Zero)
              THEN CrossY(rect, fromX, fromY, dx, dy, rect.top, FALSE, norm) ELSE NULL,
              IF FLt(Zero, dy)
              THEN CrossY(rect, fromX, fromY, dx, dy, rect.bottom, FALSE, norm) ELSE NULL>>,
            NULL)

\* The branch for a point inside the rectangle (lines 1591-1655): the ray is
\* cast outward; NULL when no edge is crossed.
insideIntersection(rect, fromX, fromY, dx, dy) ==
    insideCrossings(rect, fromX, fromY, dx, dy, Hypot(dx, dy))

\* The crossings with t in [0, 1], norm being Math.sqrt(dx * dx + dy * dy).
outsideCrossings(rect, fromX, fromY, dx, dy, norm) ==
    Closest(<<IF ~FEq(dx, Zero)
              THEN CrossX(rect, fromX, fromY, dx, dy, rect.left, TRUE, norm) ELSE NULL,
              IF ~FEq(dx, Zero)
              THEN CrossX(rect, fromX, fromY, dx, dy, rect.right, TRUE, norm) ELSE NULL,
              IF ~FEq(dy, Zero)
              THEN CrossY(rect, fromX, fromY, dx, dy, rect.top, TRUE, norm) ELSE NULL,
              IF ~FEq(dy, Zero)
              THEN CrossY(rect, fromX, fromY, dx, dy, rect.bottom, TRUE, norm) ELSE NULL>>,
            NULL)

\* The branch for a point outside (lines 1657-1720): crossings with t in [0,1].
outsideIntersection(rect, fromX, fromY, dx, dy) ==
    outsideCrossings(rect, fromX, fromY, dx, dy, Hypot(dx, dy))

Clamp(lo, hi, v) == FMax(lo, FMin(hi, v))

\* The projection onto the line of the closest edge, not kept within the edge.
onClosestLine(rect, fromX, fromY, leftDist, rightDist, topDist, minEdgeDist) ==
    IF FEq(minEdgeDist, leftDist) THEN Pt(rect.left, fromY)
    ELSE IF FEq(minEdgeDist, rightDist) THEN Pt(rect.right, fromY)
    ELSE IF FEq(minEdgeDist, topDist) THEN Pt(fromX, rect.top)
    ELSE Pt(fromX, rect.bottom)

\* The point on the edge whose distance is minEdgeDist, the edges tried in
\* the order left, right, top, bottom.
onClosestEdge(rect, fromX, fromY, leftDist, rightDist, topDist, minEdgeDist) ==
    IF FEq(minEdgeDist, leftDist)
    THEN Pt(rect.left, Clamp(rect.top, rect.bottom, fromY))
    ELSE IF FEq(minEdgeDist, rightDist)
    THEN Pt(rect.right, Clamp(rect.top, rect.bottom, fromY))
    ELSE IF FEq(minEdgeDist, topDist)
    THEN Pt(Clamp(rect.left, rect.right, fromX), rect.top)
    ELSE Pt(Clamp(rect.left, rect.right, fromX), rect.bottom)

closestEdge(rect, fromX, fromY, leftDist, rightDist, topDist, bottomDist) ==
    onClosestEdge(rect, fromX, fromY, leftDist, rightDist, topDist,
                  FMin(FMin(leftDist, rightDist), FMin(topDist, bottomDist)))

\* Lines 1724-1743: no crossing found, use the closest edge.
fallbackPoint(rect, fromX, fromY) ==
    closestEdge(rect, fromX, fromY,
                FAbs(FSub(rect.left, fromX)), FAbs(FSub(rect.right, fromX)),
                FAbs(FSub(rect.top, fromY)), FAbs(FSub(rect.bottom, fromY)))

IsInside(rect, fromX, fromY) ==
    /\ FLe(rect.left, fromX) /\ FLe(fromX, rect.right)
    /\ FLe(rect.top, fromY) /\ FLe(fromY, rect.bottom)

\* The point returned: the inside branch's, else the outside branch's, else
\* the fallback's.
firstFound(ins, out, rect, fromX, fromY) ==
    IF ins # NULL THEN ins.pt
    ELSE IF out # NULL THEN out.pt
    ELSE fallbackPoint(rect, fromX, fromY)

\* findIntersection for the direction (dx, dy) = (toX - fromX, toY - fromY).
findAlong(rect, fromX, fromY, dx, dy) ==
    firstFound(IF IsInside(rect, fromX, fromY)
               THEN insideIntersection(rect, fromX, fromY, dx, dy) ELSE NULL,
               outsideIntersection(rect, fromX, fromY, dx, dy),
               rect, fromX, fromY)

\* Find intersection of a line with a rectangle.
findIntersection(rect, fromX, fromY, toX, toY) ==
    findAlong(rect, fromX, fromY, FSub(toX, fromX), FSub(toY, fromY))

-----------------------------------------------------------------------------
(* --------------------------- Edge Router ------------------------------ *)

\* markerStart && markerStart.length > 0
hasArrow(marker) == marker # NoAttr /\ Len(marker) > 0

regularOffset  == 5
arrowTipOffset == 20
\* 0.15
curveFactor    == Dec(15, 100)
minOffset      == 5
maxOffset      == 50
\* "if (length > 10)": below it no clearance is applied.
minClearLength == 10

\* The default clearance whether or not the end has an arrow.
clearanceRegular(arrow) == Num(regularOffset)

\* hasStartArrow ? arrowTipOffset : regularOffset
clearance(arrow) == Num(IF arrow THEN arrowTipOffset ELSE regularOffset)

\* label.getBBox(), with the fallback size when it throws (bbox NULL).
labelBBoxOf(label) ==
    IF label # NULL /\ label.bbox # NULL THEN label.bbox
    ELSE [width |-> Num(10), height |-> Num(5)]

\* (dy, -dx) when useStandardPerp, else (-dy, dx).
perpFor(dx, dy, useStandardPerp) ==
    IF useStandardPerp THEN Pt(dy, FNeg(dx)) ELSE Pt(FNeg(dy), dx)

\* The four quadrant cases of lines 1921-1929.
standardPerpUsed(dx, dy, isMoreVertical) ==
    IF FLe(Zero, dx) /\ FLt(dy, Zero) THEN ~isMoreVertical
    ELSE IF FLe(Zero, dx) /\ FLe(Zero, dy) THEN isMoreVertical
    ELSE IF FLt(dx, Zero) /\ FLe(Zero, dy) THEN ~isMoreVertical
    ELSE isMoreVertical

\* Lines 1914-1937: which of the two perpendiculars of (dx, dy) is used.
curvePerp(dx, dy) ==
    perpFor(dx, dy, standardPerpUsed(dx, dy, FLe(FAbs(dx), FAbs(dy))))

\* len === 0 ? 0 : v / len
unitOf(v, len) == IF FEq(len, Zero) THEN Zero ELSE FDiv(v, len)

\* The vector (x, y) scaled to length 1, len being its length.
unitVector(x, y, len) == Pt(unitOf(x, len), unitOf(y, len))

\* from + unit * dist and from - unit * dist.
advance(from, unit, dist) ==
    Pt(FAdd(from.x, FMul(unit.x, dist)), FAdd(from.y, FMul(unit.y, dist)))
retreat(from, unit, dist) ==
    Pt(FSub(from.x, FMul(unit.x, dist)), FSub(from.y, FMul(unit.y, dist)))

\* The curve offset without its bounds.
curveOffsetUnclamped(length) == FMul(length, curveFactor)

\* Math.max(minOffset, Math.min(maxOffset, length * curveFactor))
curveOffsetOf(length) ==
    FMax(Num(minOffset),
         FMin(Num(maxOffset), FMul(length, curveFactor)))

\* labelBBox.height / 2 + 2
labelRise(labelBBox) == FAdd(Half(labelBBox.height), Num(2))

\* The label's translate(...) on a curve: beyond the control point by half
\* the label's height plus 2, left by half its width.
curvedLabel(control, normPerp, labelBBox) ==
    Pt(FSub(FAdd(control.x, FMul(normPerp.x, labelRise(labelBBox))),
            Half(labelBBox.width)),
       FAdd(control.y, FMul(normPerp.y, labelRise(labelBBox))))

\* The path data and label transform of the curve from start over control to end.
curvedResult(start, control, end, normPerp, label) ==
    [d      |-> <<"M", Printed(start.x), Printed(start.y),
                  "Q", Printed(control.x), Printed(control.y),
                  Printed(end.x), Printed(end.y)>>,
     labelT |-> IF label = NULL THEN NULL
                ELSE PrintedPt(curvedLabel(control, normPerp, labelBBoxOf(label)))]

\* pathStart moved towards the control point (lines 1956-1965).
curvedStart(pathStart, dxStartCtrl, dyStartCtrl, hasStartArrow) ==
    advance(pathStart,
            unitVector(dxStartCtrl, dyStartCtrl, Hypot(dxStartCtrl, dyStartCtrl)),
            clearance(hasStartArrow))

\* pathEnd moved back towards the control point (lines 1967-1976).
curvedEnd(pathEnd, dxCtrlEnd, dyCtrlEnd, hasEndArrow) ==
    retreat(pathEnd,
            unitVector(dxCtrlEnd, dyCtrlEnd, Hypot(dxCtrlEnd, dyCtrlEnd)),
            clearance(hasEndArrow))

\* The curve once its control point is known.
curvedVia(pathStart, pathEnd, length, hasStartArrow, hasEndArrow, label, normPerp, control) ==
    IF FLt(Num(minClearLength), length)
    THEN curvedResult(curvedStart(pathStart, FSub(control.x, pathStart.x),
                                  FSub(control.y, pathStart.y), hasStartArrow),
                      control,
                      curvedEnd(pathEnd, FSub(pathEnd.x, control.x),
                                FSub(pathEnd.y, control.y), hasEndArrow),
                      normPerp, label)
    ELSE curvedResult(pathStart, control, pathEnd, normPerp, label)

\* The curve once the unit perpendicular is known: the control point is the
\* midpoint moved along it by the curve offset.
curvedAlong(pathStart, pathEnd, length, hasStartArrow, hasEndArrow, label, normPerp) ==
    curvedVia(pathStart, pathEnd, length, hasStartArrow, hasEndArrow, label, normPerp,
              advance(Pt(Half(FAdd(pathStart.x, pathEnd.x)),
                         Half(FAdd(pathStart.y, pathEnd.y))),
                      normPerp, curveOffsetOf(length)))

\* The curve for the perpendicular perp.
curvedBy(pathStart, pathEnd, length, hasStartArrow, hasEndArrow, label, perp) ==
    curvedAlong(pathStart, pathEnd, length, hasStartArrow, hasEndArrow, label,
                unitVector(perp.x, perp.y, Hypot(perp.x, perp.y)))

\* Lines 1910-1987: the quadratic curve and its label position.
curvedRoute(pathStart, pathEnd, dx, dy, length, hasStartArrow, hasEndArrow, label) ==
    curvedBy(pathStart, pathEnd, length, hasStartArrow, hasEndArrow, label,
             curvePerp(dx, dy))

\* A straight label raised off the line by half its height plus 2.
straightLabelRaised(start, end, labelBBox) ==
    Pt(FSub(Half(FAdd(start.x, end.x)), Half(labelBBox.width)),
       FSub(Half(FAdd(start.y, end.y)), labelRise(labelBBox)))

\* The label's translate(...) on a straight segment: its midpoint, left by
\* half the label's width.
straightLabel(start, end, labelBBox) ==
    Pt(FSub(Half(FAdd(start.x, end.x)), Half(labelBBox.width)),
       Half(FAdd(start.y, end.y)))

\* The path data and label transform of the segment from start to end.
straightResult(start, end, label) ==
    [d      |-> <<"M", Printed(start.x), Printed(start.y),
                  "L", Printed(end.x), Printed(end.y)>>,
     labelT |-> IF label = NULL THEN NULL
                ELSE PrintedPt(straightLabel(start, end, labelBBoxOf(label)))]

\* The segment shortened at both ends along unit.
straightAlong(pathStart, pathEnd, unit, hasStartArrow, hasEndArrow, label) ==
    straightResult(advance(pathStart, unit, clearance(hasStartArrow)),
                   retreat(pathEnd, unit, clearance(hasEndArrow)), label)

\* A straight branch that shortens every segment of non-zero length.
straightOfAnyLength(pathStart, pathEnd, dx, dy, length, hasStartArrow, hasEndArrow, label) ==
    IF FLt(Zero, length)
    THEN straightAlong(pathStart, pathEnd,
                       Pt(FDiv(dx, length), FDiv(dy, length)),
                       hasStartArrow, hasEndArrow, label)
    ELSE straightResult(pathStart, pathEnd, label)

\* Lines 1989-2016: the straight segment and its label position.
straightRoute(pathStart, pathEnd, dx, dy, length, hasStartArrow, hasEndArrow, label) ==
    IF FLt(Num(minClearLength), length)
    THEN straightAlong(pathStart, pathEnd,
                       Pt(FDiv(dx, length), FDiv(dy, length)),
                       hasStartArrow, hasEndArrow, label)
    ELSE straightResult(pathStart, pathEnd, label)

\* Endpoints left at the centres, not clipped to the rectangles.
centresBetween(source, target, sourceCenter, targetCenter) ==
    [pathStart |-> sourceCenter, pathEnd |-> targetCenter]

\* The intersection points for the centres given (lines 1885-1890).
clippedBetween(source, target, sourceCenter, targetCenter) ==
    [pathStart |-> findIntersection(getNodeRect(source), sourceCenter.x,
                                    sourceCenter.y, targetCenter.x, targetCenter.y),
     pathEnd   |-> findIntersection(getNodeRect(target), targetCenter.x,
                                    targetCenter.y, sourceCenter.x, sourceCenter.y)]

\* The clipped endpoints of an edge (lines 1879-1890).
clippedEnds(source, target) ==
    clippedBetween(source, target, getNodeCenterPosition(source),
                   getNodeCenterPosition(target))

\* "if (useCurvedEdges && length > 0)" (line 1910).
routeOfLength(pathStart, pathEnd, dx, dy, length, hasStartArrow, hasEndArrow, label, curved) ==
    IF curved /\ FLt(Zero, length)
    THEN curvedRoute(pathStart, pathEnd, dx, dy, length, hasStartArrow,
                     hasEndArrow, label)
    ELSE straightRoute(pathStart, pathEnd, dx, dy, length, hasStartArrow,
                       hasEndArrow, label)

\* The route for the direct vector (dx, dy) from pathStart to pathEnd.
routeAlong(pathStart, pathEnd, dx, dy, hasStartArrow, hasEndArrow, label, curved) ==
    routeOfLength(pathStart, pathEnd, dx, dy,
                  Hypot(dx, dy), hasStartArrow, hasEndArrow, label, curved)

\* The route between the clipped endpoints ends.
routeBetween(ends, hasStartArrow, hasEndArrow, label, curved) ==
    routeAlong(ends.pathStart, ends.pathEnd,
               FSub(ends.pathEnd.x, ends.pathStart.x),
               FSub(ends.pathEnd.y, ends.pathStart.y),
               hasStartArrow, hasEndArrow, label, curved)

\* updateEdgePosition as a function of what it reads: the new path data and,
\* for a labelled connection, the new label transform.
routeEdge(source, target, markerStart, markerEnd, label, curved) ==
    routeBetween(clippedEnds(source, target), hasArrow(markerStart),
                 hasArrow(markerEnd), label, curved)

-----------------------------------------------------------------------------
(* ------------------- texts and the rendering collaborator ------------- *)

\* The literal the validation looks for.
classDiagram == <<"c", "l", "a", "s", "s", "D", "i", "a", "g", "r", "a", "m">>

\* const defaultDiagram: the built-in example, a template literal of several
\* lines that ends with a line break (its body abbreviated to "0").
defaultDiagram == classDiagram \o <<"\n", "0", "\n">>

\* Texts the user can leave in the text area (the blank one holds a no-break
\* space and a line separator).
BlankText   == <<" ", "U+00A0", "U+2028", "\n">>
PaddedText  == <<"\n">> \o classDiagram \o <<"\n", "1", "\t">>
PrefixText  == <<"x">> \o classDiagram
SyntaxText  == classDiagram \o <<"\n", "!">>
InputTexts  == {defaultDiagram, BlankText, PaddedText, PrefixText, SyntaxText}

\* mermaidInput.value.trim() || defaultDiagram
definitionOf(text) == IF Trim(text) = <<>> THEN defaultDiagram ELSE Trim(text)

\* A validation that lets every definition through.
anyDefinition(definition) == TRUE

\* definition.trim().startsWith('classDiagram')
looksValid(definition) == StartsWith(Trim(definition), classDiagram)

Box(x, y, w, h) == [x |-> Num(x), y |-> Num(y), width |-> Num(w), height |-> Num(h)]

\* A g.node element: its id, its getBBox() and its transform attribute.
NodeEl(id, x, y) ==
    [id        |-> id,
     bbox      |-> Box(-20, -10, 40, 20),
     transform |-> Pt(Num(x), Num(y))]

\* A path of g.edgePaths: its id, its d and its marker attributes.
EdgeEl(id, markerStart, markerEnd) ==
    [id |-> id, d |-> <<"layout">>, markerStart |-> markerStart, markerEnd |-> markerEnd]

\* A g.edgeLabel element: its getBBox() size and its transform attribute.
LabelEl(w, h) == [bbox |-> [width |-> Num(w), height |-> Num(h)], transform |-> NULL]

\* What the rendering collaborator returns for the built-in example: two
\* classes side by side, one labelled relation with an end marker, and a
\* connector whose identifier has a class name only as its target.
DefaultSvg ==
    [nodes  |-> <<NodeEl(<<"c", "-", "A", "-", "0">>, 20, 10),
                  NodeEl(<<"c", "-", "D", "-", "1">>, 100, 10)>>,
     edges  |-> <<EdgeEl(<<"i", "_", "A", "_", "D", "_", "1">>, NoAttr, <<"u">>),
                  EdgeEl(<<"n", "_", "N", "_", "D">>, NoAttr, NoAttr)>>,
     labels |-> <<LabelEl(20, 10)>>]

\* What it returns for the other valid text: two classes one above the other,
\* a connector whose identifier is not of the form x_Source_Target, and one
\* relation with a start marker; only the first edge has a label element.
OtherSvg ==
    [nodes  |-> <<NodeEl(<<"c", "-", "A", "-", "0">>, 20, 10),
                  NodeEl(<<"c", "-", "B", "-", "1">>, 20, 60)>>,
     edges  |-> <<EdgeEl(<<"e", "N", "1">>, NoAttr, NoAttr),
                  EdgeEl(<<"i", "_", "B", "_", "A", "_", "1">>, <<"u">>, NoAttr)>>,
     labels |-> <<LabelEl(10, 6)>>]

\* The collaborator rejects a definition with a syntax error (a "!").
mermaidAccepts(definition) == ~Includes(definition, <<"!">>)

\* The collaborator draws the built-in example the same with or without the
\* white space around it.
mermaidSvg(definition) ==
    IF Trim(definition) = Trim(defaultDiagram) THEN DefaultSvg ELSE OtherSvg

-----------------------------------------------------------------------------
(* ------------------------------ state --------------------------------- *)

VARIABLES
    inputText,        \* mermaidInput.value
    useCurvedEdges,   \* let useCurvedEdges
    timers,           \* pending setTimeout(renderMermaid, 500) calls: [id, left]
    debounceTimer,    \* let debounceTimer: the last handle (handles count up), 0 while undefined
    sinceInput,       \* time since the last input event (capped), -1 before the first
    inflight,         \* renders suspended in "await mermaid.render": [id, definition]
    nextId,           \* the next uniqueId (`mermaid-${Date.now()}`, increasing)
    docs,             \* the SVG documents still referenced, by uniqueId
    output,           \* what mermaidOutput shows
    panZoomInstance,  \* let panZoomInstance
    zoomTimers,       \* pending 150 ms "center and zoom" timeouts
    dragContext,      \* let dragContext
    edgeConnections,  \* let edgeConnections (a Map: entries in insertion order)
    listeners,        \* registrations of the two document-level handlers
    leftDown,         \* the left mouse button is held
    moves,            \* pointer moves that have repositioned a node so far
    probe             \* a geometry call examined on its own: its arguments and result

vars == <<inputText, useCurvedEdges, timers, debounceTimer, sinceInput,
          inflight, nextId, docs, output, panZoomInstance, zoomTimers, dragContext,
          edgeConnections, listeners, leftDown, moves, probe>>

\* ------------------------------ bounds --------------------------------
\* Renders that reach the collaborator in one run (the page's first included).
MaxRenders == 3
\* Pointer moves that reposition a node in one run.
MaxMoves == 1
\* Input events in one run.
MaxInputs == 3
\* Granularity of the passage of time, in ms.
TickMs == 250

\* setTimeout(renderMermaid, 500)
DebounceMs == 500

\* A reference to no element (document identifiers start at 1).
NoRef == <<0, 0>>

\* Mouse buttons: 0 left, 1 middle.  Any other button acts as the middle one
\* does outside the diagram, except that its press clears isPanning.
Buttons == 0..1

\* Pointer positions (clientX, clientY) an event can carry.
Pointers == {<<10, 5>>, <<60, 25>>}

\* Scale of the SVG in its container when svg-pan-zoom fits it (zoom 1).
FitScale == Num(2)
\* const initialZoomLevel = 0.2
initialZoomLevel == Dec(2, 10)
\* Zoom levels the wheel can select, within [minZoom, maxZoom] = [0.05, 1].
ZoomLevels == {initialZoomLevel, Num(1)}
\* Pan offsets of the viewport.
CenteredPan == Pt(Zero, Zero)
PanOffsets  == {CenteredPan, Pt(Num(30), Num(10))}

\* The view svg-pan-zoom starts from, and returns to on destroy (reset).
FitView == [zoom |-> Num(1), pan |-> CenteredPan]

-----------------------------------------------------------------------------
(* --------------------------- DOM helpers ------------------------------ *)

NodeAt(ds, ref)  == ds[ref[1]].nodes[ref[2]]
EdgeAt(ds, ref)  == ds[ref[1]].edges[ref[2]]
LabelAt(ds, ref) == ds[ref[1]].labels[ref[2]]

SetNode(ds, ref, n)  == [ds EXCEPT ![ref[1]].nodes[ref[2]] = n]
SetEdge(ds, ref, e)  == [ds EXCEPT ![ref[1]].edges[ref[2]] = e]
SetLabel(ds, ref, l) == [ds EXCEPT ![ref[1]].labels[ref[2]] = l]

\* The documents a state still refers to: the displayed one and those held by
\* the module's globals; the others are garbage.
LiveDocs(out, pz, dc, conns) ==
    (IF out.kind = "svg" THEN {out.gen} ELSE {})
    \cup (IF pz # NULL THEN {pz.gen} ELSE {})
    \cup (IF dc # NULL THEN {dc.node[1]} ELSE {})
    \cup {conns[i].edge[1] : i \in 1..Len(conns)}

\* A document only dragContext.node still points into: nothing reads anything
\* of it but that node, so the rest of it is garbage too.
Detached(doc, ref) ==
    [doc EXCEPT !.nodes = [i \in DOMAIN doc.nodes |->
                              IF i = ref[2] THEN doc.nodes[i]
                              ELSE [doc.nodes[i] EXCEPT !.transform = Pt(Zero, Zero)]],
                !.edges = <<>>, !.labels = <<>>, !.isPanning = FALSE]

Collect(ds, out, pz, dc, conns) ==
    [g \in (DOMAIN ds) \cap LiveDocs(out, pz, dc, conns) |->
        IF g \in LiveDocs(out, pz, NULL, conns) THEN ds[g] ELSE Detached(ds[g], dc.node)]

\* mermaidOutput.querySelector('svg'): the displayed document, 0 when none.
shownGen == IF output.kind = "svg" THEN output.gen ELSE 0

-----------------------------------------------------------------------------
(* ------------------------- Connection Index --------------------------- *)

\* Map.prototype.set on a Map kept as a sequence of entries with a key field.
RECURSIVE MapSet(_, _)
MapSet(m, entry) ==
    IF m = <<>> THEN <<entry>>
    ELSE IF Head(m).key = entry.key THEN <<entry>> \o Tail(m)
    ELSE <<Head(m)>> \o MapSet(Tail(m), entry)

\* The position of the last node with the id of node i.
lastWithId(nodes, i) ==
    CHOOSE j \in i..Len(nodes) :
        /\ nodes[j].id = nodes[i].id
        /\ \A k \in (j + 1)..Len(nodes) : nodes[k].id # nodes[i].id

\* nodeMap: the nodes with a non-empty id, keyed by id, in the order the ids
\* are first met, each with the last node that has it (lines 1487-1494).
RECURSIVE nodeMapOf(_, _)
nodeMapOf(nodes, i) ==
    IF i > Len(nodes) THEN <<>>
    ELSE IF nodes[i].id = <<>> \/ \E j \in 1..(i - 1) : nodes[j].id = nodes[i].id
    THEN nodeMapOf(nodes, i + 1)
    ELSE <<[key |-> nodes[i].id, idx |-> lastWithId(nodes, i)]>>
         \o nodeMapOf(nodes, i + 1)

\* Array.from(nodeMap.keys()).find(id => id && id.includes(name)): the index
\* of the node found, 0 when none.
findNode(nodeMap, name) ==
    IF \E i \in 1..Len(nodeMap) : Includes(nodeMap[i].key, name)
    THEN nodeMap[CHOOSE i \in 1..Len(nodeMap) :
                     /\ Includes(nodeMap[i].key, name)
                     /\ \A j \in 1..(i - 1) : ~Includes(nodeMap[j].key, name)].idx
    ELSE 0

\* `${index}`: the decimal digits of the natural number index.
RECURSIVE DecimalOf(_)
DecimalOf(index) ==
    IF index < 10
    THEN <<(<<"0", "1", "2", "3", "4", "5", "6", "7", "8", "9">>)[index + 1]>>
    ELSE DecimalOf(index \div 10) \o DecimalOf(index % 10)

\* sourceName and targetName for the pieces of a split id (lines 1509-1516),
\* `unknownSource-${index}` and `unknownTarget-${index}` when they are fewer
\* than three; index is the edge's 0-based position.
namesFrom(idParts, index) ==
    IF Len(idParts) >= 3
    THEN [source |-> idParts[2], target |-> idParts[3]]
    ELSE [source |-> <<"u", "n", "k", "n", "o", "w", "n", "S", "o", "u", "r", "c", "e", "-">>
                         \o DecimalOf(index),
          target |-> <<"u", "n", "k", "n", "o", "w", "n", "T", "a", "r", "g", "e", "t", "-">>
                         \o DecimalOf(index)]

\* The source and target names read from an edge id.
edgeNames(edge, index) ==
    namesFrom(IF edge.id # <<>> THEN Split(edge.id, "_") ELSE <<>>, index)

\* An entry that takes the last label for an edge beyond the labels.
entryWithLastLabel(svg, gen, i, src, tgt) ==
    [key         |-> IF svg.edges[i].id # <<>> THEN svg.edges[i].id
                     ELSE <<"e", "d", "g", "e", "-", "i", "n", "d", "e", "x", "-">>
                              \o DecimalOf(i - 1),
     edge        |-> <<gen, i>>,
     source      |-> <<gen, src>>,
     target      |-> <<gen, tgt>>,
     label       |-> IF i - 1 < Len(svg.labels) THEN <<gen, i>>
                     ELSE IF Len(svg.labels) > 0 THEN <<gen, Len(svg.labels)>> ELSE NoRef,
     originalD   |-> svg.edges[i].d,
     markerEnd   |-> svg.edges[i].markerEnd,
     markerStart |-> svg.edges[i].markerStart,
     initialSourcePos |-> getNodeCenterPosition(svg.nodes[src]),
     initialTargetPos |-> getNodeCenterPosition(svg.nodes[tgt])]

\* The entry edgeConnections.set stores for edge i of document gen, its
\* endpoints being nodes src and tgt (lines 1537-1547), under the key
\* edge.id || `edge-index-${index}`.
entryFor(svg, gen, i, src, tgt) ==
    [key         |-> IF svg.edges[i].id # <<>> THEN svg.edges[i].id
                     ELSE <<"e", "d", "g", "e", "-", "i", "n", "d", "e", "x", "-">>
                              \o DecimalOf(i - 1),
     edge        |-> <<gen, i>>,
     source      |-> <<gen, src>>,
     target      |-> <<gen, tgt>>,
     label       |-> IF i - 1 < Len(svg.labels) THEN <<gen, i>> ELSE NoRef,
     originalD   |-> svg.edges[i].d,
     markerEnd   |-> svg.edges[i].markerEnd,
     markerStart |-> svg.edges[i].markerStart,
     initialSourcePos |-> getNodeCenterPosition(svg.nodes[src]),
     initialTargetPos |-> getNodeCenterPosition(svg.nodes[tgt])]

\* An index that also keeps an edge with a single endpoint found, the node
\* found standing for the missing one.
connectionPartial(svg, gen, i, src, tgt) ==
    IF src # 0 \/ tgt # 0
    THEN entryFor(svg, gen, i, IF src = 0 THEN tgt ELSE src, IF tgt = 0 THEN src ELSE tgt)
    ELSE NULL

\* "if (sourceNodeId && targetNodeId)": the entry for edge i, src and tgt
\* being the nodes found (0: not found); NULL when either is missing.
connectionBetween(svg, gen, i, src, tgt) ==
    IF src # 0 /\ tgt # 0 THEN entryFor(svg, gen, i, src, tgt) ELSE NULL

\* The entry for edge i, the names looked up in nodeMap.
connectionFor(svg, gen, i, names, nodeMap) ==
    connectionBetween(svg, gen, i, findNode(nodeMap, names.source),
                      findNode(nodeMap, names.target))

\* The entry analyzeEdges stores for the edge at 1-based position i of
\* document gen, NULL when an endpoint is unresolved.
connectionOf(svg, gen, i) ==
    connectionFor(svg, gen, i, edgeNames(svg.edges[i], i - 1), nodeMapOf(svg.nodes, 1))

\* The map after the entry c (NULL: none) is stored.
stored(map, c) == IF c = NULL THEN map ELSE MapSet(map, c)

\* edges.forEach(...) of analyzeEdges from edge i on, onto the map so far.
RECURSIVE analyzeFrom(_, _, _, _)
analyzeFrom(svg, gen, i, map) ==
    IF i > Len(svg.edges) THEN map
    ELSE analyzeFrom(svg, gen, i + 1, stored(map, connectionOf(svg, gen, i)))

\* analyzeEdges(svg): edgeConnections.clear() and the rebuild.
analyzeEdges(svg, gen) == analyzeFrom(svg, gen, 1, <<>>)

-----------------------------------------------------------------------------
(* -------------------- Edge Router on the documents -------------------- *)

\* A router that extends the path data it finds instead of replacing it.
writtenOnto(ds, c, r) ==
    IF c.label = NoRef
    THEN SetEdge(ds, c.edge, [EdgeAt(ds, c.edge) EXCEPT !.d = @ \o r.d])
    ELSE SetLabel(SetEdge(ds, c.edge, [EdgeAt(ds, c.edge) EXCEPT !.d = @ \o r.d]),
                  c.label, [LabelAt(ds, c.label) EXCEPT !.transform = r.labelT])

\* edge.setAttribute('d', newPath) and, for a labelled connection,
\* label.setAttribute('transform', ...), for the route r.
written(ds, c, r) ==
    IF c.label = NoRef
    THEN SetEdge(ds, c.edge, [EdgeAt(ds, c.edge) EXCEPT !.d = r.d])
    ELSE SetLabel(SetEdge(ds, c.edge, [EdgeAt(ds, c.edge) EXCEPT !.d = r.d]),
                  c.label, [LabelAt(ds, c.label) EXCEPT !.transform = r.labelT])

\* updateEdgePosition(connection): the documents after the edge's path data
\* and its label's transform are rewritten.
updateEdgePosition(ds, c, curved) ==
    written(ds, c, routeEdge(NodeAt(ds, c.source), NodeAt(ds, c.target),
                             c.markerStart, c.markerEnd,
                             IF c.label = NoRef THEN NULL ELSE LabelAt(ds, c.label),
                             curved))

\* A test that finds only the connections leaving the node.
leaves(c, ref) == c.source = ref

\* connection.source === node || connection.target === node
touches(c, ref) == c.source = ref \/ c.target = ref

\* edgeConnections.forEach of updateConnectedEdges from entry i on.
RECURSIVE updateFrom(_, _, _, _, _)
updateFrom(ds, conns, i, ref, curved) ==
    IF i > Len(conns) THEN ds
    ELSE updateFrom(IF touches(conns[i], ref)
                    THEN updateEdgePosition(ds, conns[i], curved) ELSE ds,
                    conns, i + 1, ref, curved)

\* updateConnectedEdges(node)
updateConnectedEdges(ds, conns, ref, curved) ==
    IF NodeAt(ds, ref).id = <<>> THEN ds
    ELSE updateFrom(ds, conns, 1, ref, curved)

\* edgeConnections.forEach of redrawAllEdges from entry i on.
RECURSIVE redrawFrom(_, _, _, _)
redrawFrom(ds, conns, i, curved) ==
    IF i > Len(conns) THEN ds
    ELSE redrawFrom(updateEdgePosition(ds, conns[i], curved), conns, i + 1, curved)

\* redrawAllEdges()
redrawAllEdges(ds, conns, curved) == redrawFrom(ds, conns, 1, curved)

-----------------------------------------------------------------------------
(* --------------------------- render cycle ----------------------------- *)

\* The page once the script has run to its end: the text area holds the
\* built-in example and the first render is suspended in the collaborator.
Loaded ==
    /\ inputText = defaultDiagram
    /\ useCurvedEdges \in BOOLEAN
    /\ timers = {}
    /\ debounceTimer = 0
    /\ sinceInput = -1
    /\ inflight = {[id |-> 1, definition |-> definitionOf(defaultDiagram)]}
    /\ nextId = 2
    /\ docs = <<>>
    /\ output = [kind |-> "empty"]
    /\ panZoomInstance = NULL
    /\ zoomTimers = 0
    /\ dragContext = NULL
    /\ edgeConnections = <<>>
    /\ listeners = [mousemove |-> 0, mouseup |-> 0]
    /\ leftDown = FALSE
    /\ moves = 0

\* The loaded page, no geometry call being examined on its own.
Init == Loaded /\ probe = NULL

\* panZoomInstance.destroy(): the library resets the view of its SVG.
destroyed(ds, pz) ==
    IF pz # NULL /\ pz.gen \in DOMAIN ds
    THEN [ds EXCEPT ![pz.gen].view = FitView]
    ELSE ds

\* document.addEventListener: a listener already registered is not added again.
addListener(n) == IF n = 0 THEN 1 ELSE n
\* document.removeEventListener
removeListener(n) == IF n > 0 THEN n - 1 ELSE 0

\* cleanup(): the globals it leaves behind.  dragContext is not among them.
cleanup ==
    [docs            |-> destroyed(docs, panZoomInstance),
     panZoomInstance |-> NULL,
     listeners       |-> [mousemove |-> removeListener(listeners.mousemove),
                          mouseup   |-> removeListener(listeners.mouseup)],
     edgeConnections |-> <<>>]

\* The definition is sent to the collaborator (lines 2045-2048).
submitted(definition) ==
    /\ nextId <= MaxRenders
    /\ inflight' = inflight \cup {[id |-> nextId, definition |-> definition]}
    /\ nextId' = nextId + 1
    /\ output' = output

\* The validation fails (lines 2040-2043): the message replaces the output.
refused ==
    /\ output' = [kind |-> "invalid"]
    /\ UNCHANGED <<inflight, nextId>>

\* renderMermaid() after cleanup() has left c, for the definition read.
renderOf(c, definition) ==
    /\ panZoomInstance' = c.panZoomInstance
    /\ listeners' = c.listeners
    /\ edgeConnections' = c.edgeConnections
    /\ IF looksValid(definition) THEN submitted(definition) ELSE refused
    /\ docs' = Collect(c.docs, output', c.panZoomInstance, dragContext,
                       c.edgeConnections)
    /\ UNCHANGED <<probe, zoomTimers, dragContext, leftDown, moves, useCurvedEdges>>

\* renderMermaid() up to its first suspension or return.
renderMermaid == renderOf(cleanup, definitionOf(inputText))

\* The document built from the collaborator's SVG text by the innerHTML
\* assignment, with what initializePanZoom adds to it: the viewport group
\* (which every document therefore has), the mousedown listener's isPanning
\* flag and the instance's view.
newDocument(svg) ==
    [nodes |-> svg.nodes, edges |-> svg.edges, labels |-> svg.labels,
     isPanning |-> FALSE, view |-> FitView]

\* mermaidOutput.innerHTML = svg, initializePanZoom() and
\* makeNodesDraggable() for the SVG of render r.
installed(r, svg) ==
    /\ inflight' = inflight \ {r}
    /\ output' = [kind |-> "svg", gen |-> r.id]
    /\ panZoomInstance' = [gen |-> r.id]
    /\ zoomTimers' = zoomTimers + 1
    /\ edgeConnections' = analyzeEdges(svg, r.id)
    /\ listeners' = [mousemove |-> addListener(listeners.mousemove),
                     mouseup   |-> addListener(listeners.mouseup)]
    /\ docs' = Collect(destroyed(docs, panZoomInstance) @@ (r.id :> newDocument(svg)),
                       output', panZoomInstance', dragContext, edgeConnections')
    /\ UNCHANGED <<probe, inputText, useCurvedEdges, timers, debounceTimer,
                   sinceInput, nextId, dragContext, leftDown, moves>>

\* The render r leaves the suspension without touching the page.
dropped(r) ==
    /\ inflight' = inflight \ {r}
    /\ UNCHANGED <<probe, inputText, useCurvedEdges, timers, debounceTimer, sinceInput,
                   nextId, docs, output, panZoomInstance, zoomTimers,
                   dragContext, edgeConnections, listeners, leftDown, moves>>

\* A page that numbers its requests and installs only the answer to the
\* latest one.
resolvedIfLatest(r, svg) ==
    IF r.id = nextId - 1 THEN installed(r, svg) ELSE dropped(r)

\* Lines 2049-2055 for the SVG the collaborator returned: whatever was
\* requested since, it is installed.
resolvedWith(r, svg) == installed(r, svg)

\* The collaborator resolves the suspended render r.
RenderResolve(r) ==
    /\ mermaidAccepts(r.definition)
    /\ resolvedWith(r, mermaidSvg(r.definition))

\* The catch block, lines 2056-2067: the message and the attempted
\* definition replace the output.
caught(r) ==
    /\ inflight' = inflight \ {r}
    /\ output' = [kind |-> "error", definition |-> r.definition]
    /\ docs' = Collect(docs, output', panZoomInstance, dragContext, edgeConnections)
    /\ UNCHANGED <<probe, inputText, useCurvedEdges, timers, debounceTimer,
                   sinceInput, nextId, panZoomInstance, zoomTimers, dragContext,
                   edgeConnections, listeners, leftDown, moves>>

\* A render without the catch block: the rejection leaves the page as it is.
uncaught(r) == dropped(r)

\* What renderMermaid does with a rejection of render r.
rejectedWith(r) == caught(r)

\* The collaborator rejects the suspended render r.
RenderReject(r) ==
    /\ ~mermaidAccepts(r.definition)
    /\ rejectedWith(r)

\* The 150 ms timeout of initializePanZoom (lines 1451-1457).
ZoomTimeout ==
    /\ zoomTimers > 0
    /\ zoomTimers' = zoomTimers - 1
    /\ docs' = IF panZoomInstance # NULL /\ panZoomInstance.gen \in DOMAIN docs
               THEN [docs EXCEPT ![panZoomInstance.gen].view =
                        [zoom |-> initialZoomLevel, pan |-> CenteredPan]]
               ELSE docs
    /\ UNCHANGED <<probe, inputText, useCurvedEdges, timers, debounceTimer,
                   sinceInput, inflight, nextId, output, panZoomInstance,
                   dragContext, edgeConnections, listeners, leftDown, moves>>

-----------------------------------------------------------------------------
(* ----------------------- text input and toggles ----------------------- *)

\* A listener that leaves the pending timer running.
keepTimers(ts, handle) == ts

\* clearTimeout(debounceTimer)
clearTimeout(ts, handle) == {t \in ts : t.id # handle}

\* debounceTimer = setTimeout(renderMermaid, 500) with the pending timers
\* left by clearTimeout; setTimeout returns the next handle.
scheduled(text, cleared, handle) ==
    /\ debounceTimer < MaxInputs
    /\ inputText' = text
    /\ timers' = cleared \cup {[id |-> handle, left |-> DebounceMs]}
    /\ debounceTimer' = handle
    /\ sinceInput' = 0
    /\ UNCHANGED <<probe, useCurvedEdges, inflight, nextId, docs, output,
                   panZoomInstance, zoomTimers, dragContext, edgeConnections,
                   listeners, leftDown, moves>>

\* The input listener (lines 2111-2114), the text now being text.
Input(text) ==
    scheduled(text, clearTimeout(timers, debounceTimer), debounceTimer + 1)

Min(a, b) == IF a < b THEN a ELSE b

\* The time to the next expiry, at most TickMs.
stepOf(ts) ==
    Min(TickMs, CHOOSE m \in {t.left : t \in ts} : \A t \in ts : m <= t.left)

\* Time passes, up to the next timer's expiry; an expired timer runs first.
Tick ==
    /\ timers # {}
    /\ \A t \in timers : t.left > 0
    /\ timers' = {[t EXCEPT !.left = t.left - stepOf(timers)] : t \in timers}
    /\ sinceInput' = IF sinceInput < 0 THEN sinceInput
                     ELSE Min(sinceInput + stepOf(timers), DebounceMs)
    /\ UNCHANGED <<probe, inputText, useCurvedEdges, debounceTimer, inflight,
                   nextId, docs, output, panZoomInstance, zoomTimers, dragContext,
                   edgeConnections, listeners, leftDown, moves>>

\* A debounce timer expires and calls renderMermaid.
DebounceFire ==
    \E t \in timers :
        /\ t.left = 0
        /\ timers' = timers \ {t}
        /\ renderMermaid
        /\ UNCHANGED <<inputText, debounceTimer, sinceInput>>

\* The dark-mode change listener (lines 2117-2129): the theme, which the
\* model does not keep, is switched and the diagram rendered again.
ToggleDark ==
    /\ renderMermaid
    /\ UNCHANGED <<inputText, timers, debounceTimer, sinceInput>>

\* The curve change listener (lines 2132-2135).
ToggleCurve ==
    /\ useCurvedEdges' = ~useCurvedEdges
    /\ docs' = redrawAllEdges(docs, edgeConnections, useCurvedEdges')
    /\ UNCHANGED <<probe, inputText, timers, debounceTimer, sinceInput, inflight,
                   nextId, output, panZoomInstance, zoomTimers, dragContext,
                   edgeConnections, listeners, leftDown, moves>>

-----------------------------------------------------------------------------
(* ------------------------ pointer and view ---------------------------- *)

\* viewport.getScreenCTM(): the matrix [a c e; b d f] of the viewport group.
screenCTM(view) ==
    [a |-> FMul(FitScale, view.zoom), b |-> Zero,
     c |-> Zero, d |-> FMul(FitScale, view.zoom),
     e |-> view.pan.x, f |-> view.pan.y]

\* The inverse of m, det being its determinant.
inverseBy(m, det) ==
    [a |-> FDiv(m.d, det), b |-> FDiv(FNeg(m.b), det),
     c |-> FDiv(FNeg(m.c), det), d |-> FDiv(m.a, det),
     e |-> FDiv(FSub(FMul(m.c, m.f), FMul(m.d, m.e)), det),
     f |-> FDiv(FSub(FMul(m.b, m.e), FMul(m.a, m.f)), det)]

\* SVGMatrix.inverse()
inverse(m) == inverseBy(m, FSub(FMul(m.a, m.d), FMul(m.b, m.c)))

\* The screen delta through the whole inverse, its translation included.
deltaWithTranslation(ctmInverse, deltaClientX, deltaClientY) ==
    Pt(FAdd(FAdd(FMul(ctmInverse.a, deltaClientX), FMul(ctmInverse.c, deltaClientY)),
            ctmInverse.e),
       FAdd(FAdd(FMul(ctmInverse.b, deltaClientX), FMul(ctmInverse.d, deltaClientY)),
            ctmInverse.f))

\* Lines 1801-1802: the screen delta through the linear part of the inverse.
deltaSvg(ctmInverse, deltaClientX, deltaClientY) ==
    Pt(FAdd(FMul(ctmInverse.a, deltaClientX), FMul(ctmInverse.c, deltaClientY)),
       FAdd(FMul(ctmInverse.b, deltaClientX), FMul(ctmInverse.d, deltaClientY)))

\* The svg mousedown listener's update of isPanning (lines 1390-1409).
panningAfterDown(button) == button = 1

\* handleNodeMouseDown(e, node): the drag context it stores (lines 1760-1777),
\* whatever was there before.
contextFor(ds, ref, p) ==
    [node             |-> ref,
     initialTransform |-> getNodeTransform(NodeAt(ds, ref)),
     startClientX     |-> p[1],
     startClientY     |-> p[2]]

\* dragContext after a press of button on target (0: the background).
contextAfterDown(dc, ds, button, ref, p) ==
    IF button = 0 /\ ref[2] # 0 THEN contextFor(ds, ref, p) ELSE dc

\* The svg mousedown listener for the documents ds1 it leaves.
pressed(button, ref, p, ds1) ==
    /\ leftDown' = (leftDown \/ button = 0)
    /\ dragContext' = contextAfterDown(dragContext, ds1, button, ref, p)
    /\ docs' = Collect(ds1, output, panZoomInstance, dragContext', edgeConnections)
    /\ UNCHANGED <<probe, inputText, useCurvedEdges, timers, debounceTimer,
                   sinceInput, inflight, nextId, output, panZoomInstance,
                   zoomTimers, edgeConnections, listeners, moves>>

\* A mouse button goes down over the displayed SVG, on node target (0: on the
\* background), at pointer position p.
MouseDown(button, target, p) ==
    /\ shownGen # 0
    /\ target \in 0..Len(docs[shownGen].nodes)
    /\ button = 0 => ~leftDown
    /\ pressed(button, <<shownGen, target>>, p,
               [docs EXCEPT ![shownGen].isPanning = panningAfterDown(button)])

\* The left button goes down outside the diagram: no listener of the page runs.
MouseDownElsewhere ==
    /\ ~leftDown
    /\ leftDown' = TRUE
    /\ UNCHANGED <<probe, inputText, useCurvedEdges, timers, debounceTimer,
                   sinceInput, inflight, nextId, docs, output, panZoomInstance,
                   zoomTimers, dragContext, edgeConnections, listeners, moves>>

\* beforePan: () => isPanning, of the displayed SVG's live pan/zoom instance.
beforePan(ds, g) == ds[g].isPanning

\* The pan gesture can move the view: an instance is live on the displayed SVG
\* and its beforePan allows it.
canPan ==
    /\ shownGen # 0
    /\ panZoomInstance # NULL
    /\ panZoomInstance.gen = shownGen
    /\ beforePan(docs, shownGen)

\* initialTransform + delta (lines 1805-1806).
movedBy(dc, delta) ==
    Pt(FAdd(dc.initialTransform.x, delta.x), FAdd(dc.initialTransform.y, delta.y))

\* The node position handleNodeMouseMove computes (lines 1793-1806).
draggedTo(dc, view, p) ==
    movedBy(dc, deltaSvg(inverse(screenCTM(view)),
                         Num(p[1] - dc.startClientX), Num(p[2] - dc.startClientY)))

\* handleNodeMouseMove(e) on the documents ds.
handleNodeMouseMove(ds, p) ==
    IF dragContext = NULL \/ shownGen = 0 THEN ds
    ELSE updateConnectedEdges(
             SetNode(ds, dragContext.node,
                     [NodeAt(ds, dragContext.node) EXCEPT !.transform =
                          PrintedPt(draggedTo(dragContext, ds[shownGen].view, p))]),
             edgeConnections, dragContext.node, useCurvedEdges)

\* A mousemove event reaches the document: its listener, if registered, runs.
documentMouseMove(ds, p) ==
    IF listeners.mousemove > 0 THEN handleNodeMouseMove(ds, p) ELSE ds

\* handleNodeMouseMove is registered and gets past its early returns.
moveApplies ==
    /\ listeners.mousemove > 0
    /\ dragContext # NULL
    /\ shownGen # 0

\* The documents after the library has panned the view, if the gesture is
\* allowed.
panned(ds, pan) == IF canPan THEN [ds EXCEPT ![shownGen].view.pan = pan] ELSE ds

\* The pointer moves to p; when the pan gesture is allowed the library moves
\* the view to pan first (its listener is on the SVG, the page's on the
\* document).
MouseMove(p, pan) ==
    /\ canPan \/ pan = CenteredPan
    /\ moveApplies => moves < MaxMoves
    /\ moves' = IF moveApplies THEN moves + 1 ELSE moves
    /\ docs' = documentMouseMove(panned(docs, pan), p)
    /\ UNCHANGED <<probe, inputText, useCurvedEdges, timers, debounceTimer,
                   sinceInput, inflight, nextId, output, panZoomInstance,
                   zoomTimers, dragContext, edgeConnections, listeners, leftDown>>

\* A release that puts the node back where the session found it.
handleNodeMouseUpRestoring(ds, dc) ==
    IF dc = NULL THEN [docs |-> ds, dragContext |-> dc]
    ELSE [docs |-> updateConnectedEdges(
                       SetNode(ds, dc.node,
                               [NodeAt(ds, dc.node) EXCEPT !.transform = dc.initialTransform]),
                       edgeConnections, dc.node, useCurvedEdges),
          dragContext |-> NULL]

\* handleNodeMouseUp(): the documents and the drag context it leaves.
handleNodeMouseUp(ds, dc) ==
    IF dc = NULL THEN [docs |-> ds, dragContext |-> dc]
    ELSE [docs |-> updateConnectedEdges(ds, edgeConnections, dc.node, useCurvedEdges),
          dragContext |-> NULL]

\* A mouseup event reaches the document: its listener, if registered, runs.
documentMouseUp(ds, dc) ==
    IF listeners.mouseup > 0 THEN handleNodeMouseUp(ds, dc)
    ELSE [docs |-> ds, dragContext |-> dc]

\* The svg mouseup listener (lines 1411-1416), run when the release is over
\* the displayed SVG.
svgMouseUp(ds, button, overSvg) ==
    IF overSvg /\ button = 1 /\ ds[shownGen].isPanning
    THEN [ds EXCEPT ![shownGen].isPanning = FALSE] ELSE ds

\* The release of button, up being what the document's mouseup listeners leave.
released(button, up) ==
    /\ leftDown' = (leftDown /\ button # 0)
    /\ dragContext' = up.dragContext
    /\ docs' = Collect(up.docs, output, panZoomInstance, dragContext', edgeConnections)
    /\ UNCHANGED <<probe, inputText, useCurvedEdges, timers, debounceTimer,
                   sinceInput, inflight, nextId, output, panZoomInstance,
                   zoomTimers, edgeConnections, listeners, moves>>

\* A mouse button is released, over the displayed SVG or anywhere else.
MouseUp(button, overSvg) ==
    /\ overSvg => shownGen # 0
    /\ button = 0 => leftDown
    /\ released(button, documentMouseUp(svgMouseUp(docs, button, overSvg), dragContext))

\* The pointer leaves the displayed SVG while panning (lines 1418-1423).
MouseLeave ==
    /\ shownGen # 0
    /\ docs[shownGen].isPanning
    /\ docs' = [docs EXCEPT ![shownGen].isPanning = FALSE]
    /\ UNCHANGED <<probe, inputText, useCurvedEdges, timers, debounceTimer,
                   sinceInput, inflight, nextId, output, panZoomInstance, zoomTimers,
                   dragContext, edgeConnections, listeners, leftDown, moves>>

\* The wheel zooms the displayed SVG through its live pan/zoom instance.
Wheel(zoom) ==
    /\ shownGen # 0
    /\ panZoomInstance # NULL
    /\ panZoomInstance.gen = shownGen
    /\ docs[shownGen].view.zoom # zoom
    /\ docs' = [docs EXCEPT ![shownGen].view.zoom = zoom]
    /\ UNCHANGED <<probe, inputText, useCurvedEdges, timers, debounceTimer,
                   sinceInput, inflight, nextId, output, panZoomInstance, zoomTimers,
                   dragContext, edgeConnections, listeners, leftDown, moves>>

-----------------------------------------------------------------------------
(* ------------------- geometry calls on their own ---------------------- *)

\* The program variables, which a geometry call neither reads nor writes.
pageVars == <<inputText, useCurvedEdges, timers, debounceTimer, sinceInput,
              inflight, nextId, docs, output, panZoomInstance, zoomTimers,
              dragContext, edgeConnections, listeners, leftDown, moves>>

\* The rectangles getNodeRect gives for a box of size w by h at the origin.
RectOfSize(w, h) == rectOf(Box(0, 0, w, h), Pt(Zero, Zero))
Rects == {RectOfSize(100, 50), RectOfSize(60, 30)}

\* The points the calls are made with: inside and outside the rectangles,
\* (-137, -137) being on the ray from (10, 10) through the corner (0, 0).
PointXs == {-137, -30, 10, 50, 130}
PointYs == {-137, -40, 10, 25, 200}
Points == {Pt(Num(x), Num(y)) : x \in PointXs, y \in PointYs}

\* A call findIntersection(rect, from.x, from.y, to.x, to.y) about to be made.
InitIntersect ==
    /\ Loaded
    /\ probe \in [kind : {"intersect"}, rect : Rects, from : Points, to : Points,
                  result : {NULL}]

\* The call returns.
Intersect ==
    /\ probe # NULL
    /\ probe.kind = "intersect"
    /\ probe.result = NULL
    /\ probe' = [probe EXCEPT !.result =
                     findIntersection(probe.rect, probe.from.x, probe.from.y,
                                      probe.to.x, probe.to.y)]
    /\ UNCHANGED pageVars

\* A g.node element with the given getBBox() and translate(x, y).
NodeWith(id, bbox, x, y) == [id |-> id, bbox |-> bbox, transform |-> Pt(Num(x), Num(y))]

\* The nodes the router is called with: a 100 by 50 class box at several
\* places, two smaller and larger boxes centred where the first one is, and
\* two boxes 40 by 20 of which each has its centre on a diagonal of the other.
RouteNodes ==
    {NodeWith(<<"A">>, Box(0, 0, 100, 50), 0, 0),
     NodeWith(<<"D">>, Box(0, 0, 100, 50), 200, 0),
     NodeWith(<<"N">>, Box(0, 0, 100, 50), 120, 0),
     NodeWith(<<"F">>, Box(0, 0, 100, 50), 440, 0),
     NodeWith(<<"B">>, Box(0, 0, 100, 50), 0, 100),
     NodeWith(<<"S">>, Box(-20, -10, 40, 20), 50, 25),
     NodeWith(<<"M">>, Box(-30, -20, 60, 40), 50, 25),
     NodeWith(<<"H">>, Box(-20, -10, 40, 20), 20, 10),
     NodeWith(<<"G">>, Box(-20, -10, 40, 20), -274, -137)}

Markers == {NoAttr, <<"u">>}
RouteLabels == {NULL, LabelEl(20, 10)}

\* A call of updateEdgePosition about to be made, for what the call reads.
InitRoute ==
    /\ Loaded
    /\ probe \in [kind : {"route"}, source : RouteNodes, target : RouteNodes,
                  markerStart : Markers, markerEnd : Markers,
                  label : RouteLabels, curved : BOOLEAN, result : {NULL}]

\* The call has computed the new path and label position.
Route ==
    /\ probe # NULL
    /\ probe.kind = "route"
    /\ probe.result = NULL
    /\ probe' = [probe EXCEPT !.result =
                     routeEdge(probe.source, probe.target, probe.markerStart,
                               probe.markerEnd, probe.label, probe.curved)]
    /\ UNCHANGED pageVars


\* ---- analyzeEdges on its own ----

\* The class names of the diagrams analysed: plain names, a name that is part
\* of another, and a name with an underscore in it.
ClassLists ==
    {<<<<"A">>, <<"D">>>>,
     <<<<"A", "B">>, <<"A">>>>,
     <<<<"A">>, <<"B", "_", "C">>>>}

\* A relation is a pair of positions in the class list, source then target;
\* position 0 stands for something the collaborator renders no g.node for (a
\* note), under the name "N".
Relations(classes) == (0..Len(classes)) \X (1..Len(classes))

\* The relations of a diagram: one, or two.
RelationLists(classes) ==
    {<<r>> : r \in Relations(classes)}
        \cup {<<r, s>> : r \in Relations(classes), s \in Relations(classes)}

\* The name the collaborator writes for position k of the class list.
nameAt(classes, k) == IF k = 0 THEN <<"N">> ELSE classes[k]

\* The element ids the collaborator generates: classId-Name-n for the n-th
\* class (from 0) and id_Source_Target_n for the n-th relation (from 1).
nodeIdOf(classes, k) == <<"c", "-">> \o classes[k] \o <<"-">> \o DecimalOf(k - 1)
edgeIdOf(classes, rel, n) ==
    <<"i", "_">> \o nameAt(classes, rel[1]) \o <<"_">> \o nameAt(classes, rel[2])
        \o <<"_">> \o DecimalOf(n)

\* The SVG the collaborator returns for a diagram: a g.node per class, a path
\* per relation, and a g.edgeLabel for each of the first labelled relations.
svgOf(diagram) ==
    [nodes  |-> [k \in 1..Len(diagram.classes) |->
                    NodeEl(nodeIdOf(diagram.classes, k), 20 + 80 * (k - 1), 10)],
     edges  |-> [n \in 1..Len(diagram.relations) |->
                    EdgeEl(edgeIdOf(diagram.classes, diagram.relations[n], n),
                           NoAttr, <<"u">>)],
     labels |-> [n \in 1..diagram.labelled |-> LabelEl(20, 10)]]

\* The diagrams analysed.
Diagrams ==
    UNION {[classes : {cl}, relations : RelationLists(cl), labelled : 0..2] :
               cl \in ClassLists}

\* A call analyzeEdges(svg) about to be made, for the SVG of a diagram.
InitIndex ==
    /\ Loaded
    /\ probe \in [kind : {"index"}, diagram : Diagrams, result : {NULL}]

\* The call returns: the index it has built.
Analyze ==
    /\ probe # NULL
    /\ probe.kind = "index"
    /\ probe.result = NULL
    /\ probe' = [probe EXCEPT !.result = [index |-> analyzeEdges(svgOf(probe.diagram), 1)]]
    /\ UNCHANGED pageVars


\* ---- updateConnectedEdges on its own ----

\* The diagrams a pass is run on: three classes in a row and three relations,
\* of which at least one does not end at each class; in the first two
\* diagrams one relation starts at a note and is not indexed.  The first
\* relation alone has a label, or all three have.
PassDiagrams ==
    [classes   : {<<<<"A">>, <<"D">>, <<"E">>>>},
     relations : {<<<<1, 2>>, <<2, 3>>, <<0, 3>>>>,
                  <<<<1, 2>>, <<0, 1>>, <<3, 1>>>>,
                  <<<<2, 3>>, <<1, 3>>, <<1, 2>>>>},
     labelled  : {1, 3}]

\* How far the node of the pass has been dragged from where the layout put it.
PassOffsets == {Pt(Num(0), Num(0)), Pt(Num(30), Num(45)), Pt(Num(-80), Num(60))}

\* The displayed document of diagram with node n dragged by offset, as
\* handleNodeMouseMove leaves it before it calls updateConnectedEdges.
draggedDocs(diagram, n, offset) ==
    1 :> [newDocument(svgOf(diagram)) EXCEPT !.nodes[n].transform =
              PrintedPt(Pt(FAdd(@.x, offset.x), FAdd(@.y, offset.y)))]

\* A call updateConnectedEdges(node) about to be made, the index being that
\* of the displayed diagram.
InitPass ==
    /\ Loaded
    /\ probe \in [kind : {"pass"}, diagram : PassDiagrams, node : 1..3,
                  offset : PassOffsets, curved : BOOLEAN, result : {NULL}]

\* The call returns: the documents it leaves.
Pass ==
    /\ probe # NULL
    /\ probe.kind = "pass"
    /\ probe.result = NULL
    /\ probe' = [probe EXCEPT !.result =
                     [docs |-> updateConnectedEdges(
                                   draggedDocs(probe.diagram, probe.node, probe.offset),
                                   analyzeEdges(svgOf(probe.diagram), 1),
                                   <<1, probe.node>>, probe.curved)]]
    /\ UNCHANGED pageVars
-----------------------------------------------------------------------------
(* ---------------------------- specification --------------------------- *)

\* The whole page.
Next ==
    \/ \E text \in InputTexts : Input(text)
    \/ Tick
    \/ DebounceFire
    \/ ToggleDark
    \/ ToggleCurve
    \/ \E r \in inflight : RenderResolve(r)
    \/ \E r \in inflight : RenderReject(r)
    \/ ZoomTimeout
    \/ \E button \in Buttons, target \in 0..2, p \in Pointers : MouseDown(button, target, p)
    \/ MouseDownElsewhere
    \/ \E p \in Pointers, pan \in PanOffsets : MouseMove(p, pan)
    \/ \E button \in Buttons, overSvg \in BOOLEAN : MouseUp(button, overSvg)
    \/ MouseLeave
    \/ \E zoom \in ZoomLevels : Wheel(zoom)

Spec == Init /\ [][Next]_vars

\* The render cycle by itself: the text area, the debounce timer, the theme
\* toggle and the collaborator.  No pointer action writes a variable these
\* actions read other than docs and dragContext, which they only pass on.
NextRender ==
    \/ \E text \in InputTexts : Input(text)
    \/ Tick
    \/ DebounceFire
    \/ ToggleDark
    \/ \E r \in inflight : RenderResolve(r)
    \/ \E r \in inflight : RenderReject(r)

SpecRender == Init /\ [][NextRender]_vars

\* The pointer gestures on the first render of the built-in example, with
\* the view and the curve toggle.
NextDrag ==
    \/ \E r \in inflight : RenderResolve(r)
    \/ ZoomTimeout
    \/ ToggleCurve
    \/ \E button \in Buttons, target \in 0..2, p \in Pointers : MouseDown(button, target, p)
    \/ MouseDownElsewhere
    \/ \E p \in Pointers, pan \in PanOffsets : MouseMove(p, pan)
    \/ \E button \in Buttons, overSvg \in BOOLEAN : MouseUp(button, overSvg)
    \/ MouseLeave
    \/ \E zoom \in ZoomLevels : Wheel(zoom)

SpecDrag == Init /\ [][NextDrag]_vars

\* The pointer gestures around re-renders of the built-in example: the theme
\* toggle starts a render at any moment, one fewer than MaxRenders in all.
NextSession ==
    \/ (nextId < MaxRenders /\ ToggleDark)
    \/ \E r \in inflight : RenderResolve(r)
    \/ \E button \in Buttons, target \in 0..2, p \in Pointers : MouseDown(button, target, p)
    \/ \E p \in Pointers, pan \in PanOffsets : MouseMove(p, pan)
    \/ \E button \in Buttons, overSvg \in BOOLEAN : MouseUp(button, overSvg)
    \/ MouseLeave

SpecSession == Init /\ [][NextSession]_vars


\* findIntersection on its own.
NextIntersect == Intersect
SpecIntersect == InitIntersect /\ [][NextIntersect]_vars

\* updateEdgePosition on its own.
NextRoute == Route
SpecRoute == InitRoute /\ [][NextRoute]_vars

\* analyzeEdges on its own.
NextIndex == Analyze
SpecIndex == InitIndex /\ [][NextIndex]_vars

\* updateConnectedEdges on its own.
NextPass == Pass
SpecPass == InitPass /\ [][NextPass]_vars

\* The curve toggle around re-renders and drags of the built-in example.
NextStyle ==
    \/ (nextId < MaxRenders /\ ToggleDark)
    \/ \E r \in inflight : RenderResolve(r)
    \/ ToggleCurve
    \/ \E target \in 1..2, p \in Pointers : MouseDown(0, target, p)
    \/ \E p \in Pointers : MouseMove(p, CenteredPan)
    \/ \E overSvg \in BOOLEAN : MouseUp(0, overSvg)

\* The page loaded with the curve toggle unchecked: the toggle is on only
\* after a change event.
InitStyle == Init /\ ~useCurvedEdges

SpecStyle == InitStyle /\ [][NextStyle]_vars
-----------------------------------------------------------------------------
(* ------------------------------ properties ---------------------------- *)

\* C1: while a drag session is active a pointer-down does not start another
\* one: the session stays as it is until a pointer-up clears it.
C1_SingleSession ==
    [][dragContext # NULL => (dragContext' = dragContext \/ dragContext' = NULL)]_vars

\* C2: with a drag session active, a pointer-up, wherever it happens, leaves
\* no session.
C2_PointerUpEndsSession ==
    [][(dragContext # NULL /\ \E button \in Buttons, overSvg \in BOOLEAN :
                                  MouseUp(button, overSvg))
       => dragContext' = NULL]_vars

\* C3: a drag session is never active while the pan gate of the live
\* pan/zoom instance allows panning.
C3_DragExcludesPan == ~(dragContext # NULL /\ canPan)

\* The same real quantity computed in doubles by two routes need not give the
\* same double.  Two numbers count as the same quantity when they are within
\* Margin, 10^-9, of each other: far more than the rounding of any quantity
\* of the model, far less than any length in it.
Margin == Dec(1, 1000000000)
SameReal(a, b) == FLe(FAbs(FSub(a, b)), Margin)
IsZero(a)      == FLe(FAbs(a), Margin)
IsPositive(a)  == FLt(Margin, a)
NearTo(p, q)   == SameReal(p.x, q.x) /\ SameReal(p.y, q.y)

\* The node offset the drag rule gives for pointer position p: the baseline
\* plus the pointer displacement divided by the scale of the view.
OffsetBy(dc, scale, p) ==
    Pt(FAdd(dc.initialTransform.x, FDiv(Num(p[1] - dc.startClientX), scale)),
       FAdd(dc.initialTransform.y, FDiv(Num(p[2] - dc.startClientY), scale)))

\* C4: a pointer move during a drag session puts the node at the session's
\* baseline offset plus the pointer displacement scaled by the inverse of the
\* view's scale, whatever the pan offset and wherever earlier moves left the
\* node.
C4_OffsetFromBaseline ==
    moveApplies =>
        \A p \in Pointers :
            NearTo(NodeAt(documentMouseMove(docs, p), dragContext.node).transform,
                   OffsetBy(dragContext,
                            FMul(FitScale, docs[shownGen].view.zoom), p))

\* A drag at twice magnification and with the view panned away, after a
\* pointer displacement of (50, 20) pixels: the node is (25, 10) from its
\* baseline.
C4_Witness ==
    /\ moveApplies
    /\ moves > 0
    /\ docs[shownGen].view.zoom = Num(1)
    /\ docs[shownGen].view.pan # CenteredPan
    /\ NodeAt(docs, dragContext.node).transform
           = Pt(FAdd(dragContext.initialTransform.x, Num(25)),
                FAdd(dragContext.initialTransform.y, Num(10)))

\* Some node of doc has an id that contains name.
NamesNode(doc, name) ==
    \E n \in 1..Len(doc.nodes) :
        doc.nodes[n].id # <<>> /\ Includes(doc.nodes[n].id, name)

\* Both names in the id of edge i of doc are names of nodes of doc.
Resolvable(doc, i) ==
    /\ doc.edges[i].id # <<>>
    /\ Len(Split(doc.edges[i].id, "_")) >= 3
    /\ NamesNode(doc, Split(doc.edges[i].id, "_")[2])
    /\ NamesNode(doc, Split(doc.edges[i].id, "_")[3])

\* C5: every entry of the connection index has both endpoints among the
\* nodes of the document its edge is in; an edge with an endpoint that does
\* not resolve has no entry and keeps the path the layout gave it.
C5_OnlyResolvedEdges ==
    /\ \A k \in 1..Len(edgeConnections) :
        /\ edgeConnections[k].edge[1] \in DOMAIN docs
        /\ edgeConnections[k].source[1] = edgeConnections[k].edge[1]
        /\ edgeConnections[k].target[1] = edgeConnections[k].edge[1]
        /\ edgeConnections[k].source[2] \in 1..Len(docs[edgeConnections[k].edge[1]].nodes)
        /\ edgeConnections[k].target[2] \in 1..Len(docs[edgeConnections[k].edge[1]].nodes)
        /\ Resolvable(docs[edgeConnections[k].edge[1]], edgeConnections[k].edge[2])
    /\ \A g \in DOMAIN docs :
        \A i \in 1..Len(docs[g].edges) :
            ~Resolvable(docs[g], i) =>
                /\ \A k \in 1..Len(edgeConnections) : edgeConnections[k].edge # <<g, i>>
                /\ Len(docs[g].edges[i].d) = 1

\* The displayed diagram has an edge with an unresolved endpoint next to an
\* indexed edge that the router has redrawn.
C5_Witness ==
    /\ shownGen # 0
    /\ edgeConnections # <<>>
    /\ \E i \in 1..Len(docs[shownGen].edges) : ~Resolvable(docs[shownGen], i)
    /\ \E k \in 1..Len(edgeConnections) :
           /\ edgeConnections[k].edge[1] = shownGen
           /\ Len(EdgeAt(docs, edgeConnections[k].edge).d) > 1

\* C6: every step that completes a render, by installing its SVG or by
\* reporting its rejection, leaves in the connection index only entries for
\* edges of that render's SVG: no entry made from another render is in it.
C6_OnlyOfCompletedRender ==
    [][\A r \in inflight :
           r \notin inflight' =>
               \A k \in 1..Len(edgeConnections') : edgeConnections'[k].edge[1] = r.id]_vars

\* A render that completes by installing its SVG leaves the index that an
\* analysis from empty of that SVG gives; and whenever the index is not
\* empty, it is such an analysis of a single document, the displayed one if
\* a diagram is displayed.
C6_InstalledIsRebuilt ==
    /\ [](edgeConnections # <<>> =>
             /\ edgeConnections[1].edge[1] \in DOMAIN docs
             /\ edgeConnections
                    = analyzeFrom(docs[edgeConnections[1].edge[1]],
                                  edgeConnections[1].edge[1], 1, <<>>)
             /\ shownGen # 0 => edgeConnections[1].edge[1] = shownGen)
    /\ [][\A r \in inflight :
              (r \notin inflight' /\ mermaidAccepts(r.definition)) =>
                  edgeConnections' = analyzeEdges(mermaidSvg(r.definition), r.id)]_vars

\* The definition a render reads from text, and whether it starts with the
\* class-diagram keyword.
DefinitionRead(text) == IF Trim(text) = <<>> THEN defaultDiagram ELSE Trim(text)
HasKeyword(text) ==
    /\ Len(DefinitionRead(text)) >= Len(classDiagram)
    /\ SubSeq(DefinitionRead(text), 1, Len(classDiagram)) = classDiagram

\* C7: at most one debounce timer is pending, the one of the last input
\* event, and it expires 500 ms after that event; when it expires, no timer
\* remains and the render it starts reads the text of that last event.
C7_Debounced ==
    /\ [](/\ Cardinality(timers) <= 1
          /\ \A t \in timers :
                 t.id = debounceTimer /\ t.left + sinceInput = DebounceMs)
    /\ [][DebounceFire =>
             /\ sinceInput = DebounceMs
             /\ timers' = {}
             /\ HasKeyword(inputText) =>
                    inflight' = inflight \cup
                        {[id |-> nextId, definition |-> DefinitionRead(inputText)]}]_vars

\* Two or more input events, and a single render started after the initial
\* one: it reads the text the last event left.
C7_Witness ==
    /\ debounceTimer >= 2
    /\ timers = {}
    /\ output.kind = "empty"
    /\ nextId = 3
    /\ inputText = PaddedText
    /\ [id |-> 2, definition |-> DefinitionRead(PaddedText)] \in inflight

\* C8: a suspended render leaves the suspension only by its own completion,
\* which puts its result on the page whatever has been requested since.
C8_LastResolvedWins ==
    [][\A r \in inflight :
          r \notin inflight' =>
              \/ output' = [kind |-> "svg", gen |-> r.id]
              \/ output' = [kind |-> "error", definition |-> r.definition]]_vars

\* Nothing is suspended and the diagram displayed is that of a request older
\* than the most recent one.
C8_Witness ==
    /\ inflight = {}
    /\ output.kind = "svg"
    /\ output.gen < nextId - 1

\* C9: while a render is suspended and the diagram of an earlier render is
\* displayed, a pointer move during a drag session on one of its nodes moves
\* the node.
C9_InteractiveWhileSuspended ==
    (inflight # {} /\ shownGen # 0 /\ dragContext # NULL
        /\ dragContext.node[1] = shownGen) =>
        \A p \in Pointers :
            NodeAt(documentMouseMove(docs, p), dragContext.node).transform
                = draggedTo(dragContext, docs[shownGen].view, p)

\* C10: a render of a definition that does not start with the class-diagram
\* keyword puts the inline message in the output and starts no request to
\* the rendering collaborator.
C10_InvalidRefused ==
    [][((ToggleDark \/ DebounceFire) /\ ~HasKeyword(inputText)) =>
          /\ output' = [kind |-> "invalid"]
          /\ inflight' = inflight
          /\ nextId' = nextId]_vars

\* The inline message is displayed for a text with something before the
\* keyword.
C10_Witness ==
    /\ output.kind = "invalid"
    /\ inputText = PrefixText

\* C11: a rejection by the collaborator is caught: the render leaves the
\* suspension and the output shows the error with the attempted definition;
\* and when, with an error displayed, a render of an accepted definition
\* completes, its diagram is displayed with an index built from it alone, a
\* live pan/zoom instance and both drag handlers registered.
C11_Recoverable ==
    [][\A r \in inflight :
          r \notin inflight' =>
              IF mermaidAccepts(r.definition)
              THEN output.kind = "error" =>
                       /\ output' = [kind |-> "svg", gen |-> r.id]
                       /\ edgeConnections'
                              = analyzeFrom(mermaidSvg(r.definition), r.id, 1, <<>>)
                       /\ panZoomInstance' = [gen |-> r.id]
                       /\ listeners'.mousemove > 0
                       /\ listeners'.mouseup > 0
              ELSE /\ output' = [kind |-> "error", definition |-> r.definition]
                   /\ inflight' = inflight \ {r}]_vars

\* The error of the second render is displayed while the third render, of an
\* accepted definition, is suspended.
C11_Witness ==
    /\ output.kind = "error"
    /\ \E r \in inflight : r.id = 3 /\ mermaidAccepts(r.definition)

\* The documents after the router has run for node ref once more.
RoutedAgain(ds, ref) == updateConnectedEdges(ds, edgeConnections, ref, useCurvedEdges)

\* The documents ds with the path data of every indexed edge of node ref
\* replaced by d.
RECURSIVE WithPaths(_, _, _, _)
WithPaths(ds, k, ref, d) ==
    IF k > Len(edgeConnections) THEN ds
    ELSE IF touches(edgeConnections[k], ref)
         THEN WithPaths(SetEdge(ds, edgeConnections[k].edge,
                                [EdgeAt(ds, edgeConnections[k].edge) EXCEPT !.d = d]),
                        k + 1, ref, d)
         ELSE WithPaths(ds, k + 1, ref, d)

\* once being the documents after a run of the router for node ref: a second
\* run leaves them as they are, and a run over other path data gives them too.
SettledAt(once, ref) ==
    /\ RoutedAgain(once, ref) = once
    /\ RoutedAgain(WithPaths(docs, 1, ref, <<"M", "other">>), ref) = once

\* C12: for every node of the displayed diagram, running the router for it a
\* second time, the node not having moved, leaves every path and label
\* position as the first run wrote it; and the run writes the same whatever
\* path data the node's edges had before.
C12_RouterIdempotent ==
    (shownGen # 0 /\ edgeConnections # <<>> /\ edgeConnections[1].edge[1] = shownGen) =>
        \A n \in 1..Len(docs[shownGen].nodes) :
            SettledAt(RoutedAgain(docs, <<shownGen, n>>), <<shownGen, n>>)

\* A node of the displayed diagram has been dragged and the router has written
\* the paths of its edges.
C12_Witness ==
    /\ shownGen # 0
    /\ moves > 0
    /\ \E k \in 1..Len(edgeConnections) :
           /\ edgeConnections[k].edge[1] = shownGen
           /\ Len(EdgeAt(docs, edgeConnections[k].edge).d) > 1

\* The documents after the pointer of the drag session has gone to p and come
\* back to where it was pressed, handleNodeMouseMove running for each move.
ThereAndBack(p) ==
    documentMouseMove(documentMouseMove(docs, p),
                      <<dragContext.startClientX, dragContext.startClientY>>)

\* C13: a node that a drag translates by (dx, dy) and then by (-dx, -dy), the
\* router running after each translation, has the path data of every edge
\* incident to it back at the value it had before the first translation.
C13_RoundTrip ==
    (/\ moveApplies
     /\ getNodeTransform(NodeAt(docs, dragContext.node)) = dragContext.initialTransform) =>
        \A p \in Pointers :
            \A k \in 1..Len(edgeConnections) :
                touches(edgeConnections[k], dragContext.node) =>
                    EdgeAt(ThereAndBack(p), edgeConnections[k].edge).d
                        = EdgeAt(docs, edgeConnections[k].edge).d

\* The same round trip restores every path that the router itself wrote.
C13_RoundTripOfRouted ==
    (/\ moveApplies
     /\ getNodeTransform(NodeAt(docs, dragContext.node)) = dragContext.initialTransform) =>
        \A p \in Pointers :
            \A k \in 1..Len(edgeConnections) :
                (/\ touches(edgeConnections[k], dragContext.node)
                 /\ EdgeAt(docs, edgeConnections[k].edge).d # <<"layout">>) =>
                    EdgeAt(ThereAndBack(p), edgeConnections[k].edge).d
                        = EdgeAt(docs, edgeConnections[k].edge).d

\* A call of updateEdgePosition has returned.
Routed == probe # NULL /\ probe.kind = "route" /\ probe.result # NULL

\* The clipped endpoints of the call and the distance between them.
RoutedEnds == clippedEnds(probe.source, probe.target)
RoutedLength ==
    Hypot(FSub(RoutedEnds.pathEnd.x, RoutedEnds.pathStart.x),
          FSub(RoutedEnds.pathEnd.y, RoutedEnds.pathStart.y))

\* The number a is neither NaN nor an infinity.
ProperNumber(a) == a # NaN /\ IsFinite(a)


\* The dot product and the cross product of two vectors of real numbers.
DotOf(u, v)   == FAdd(FMul(u.x, v.x), FMul(u.y, v.y))
CrossOf(u, v) == FSub(FMul(u.x, v.y), FMul(u.y, v.x))

\* The first and last point of path data d, and the positions of its numbers.
PathFirst(d) == Pt(d[2], d[3])
PathLast(d)  == Pt(d[Len(d) - 1], d[Len(d)])
NumbersOf(d) == {2, 3} \cup 5..Len(d)

\* The two nodes of the call have the same centre.
Coincident ==
    getNodeCenterPosition(probe.source) = getNodeCenterPosition(probe.target)

\* C14: for two nodes with the same centre, the same node twice included, in
\* either mode the emitted path has a proper number at every coordinate, and
\* when the clipped endpoints are at most 10 apart the path starts and ends
\* at the clipped endpoints themselves.
C14_CoincidentCenters ==
    (Routed /\ Coincident) =>
        /\ \A i \in NumbersOf(probe.result.d) :
               ProperNumber(probe.result.d[i])
        /\ FLe(RoutedLength, Num(10)) =>
               /\ PathFirst(probe.result.d) = RoutedEnds.pathStart
               /\ PathLast(probe.result.d) = RoutedEnds.pathEnd

\* Two different nodes with one centre whose clipped endpoints are 5 apart
\* have been routed straight.
C14_Witness ==
    /\ Routed
    /\ Coincident
    /\ probe.source.id # probe.target.id
    /\ ~probe.curved
    /\ RoutedLength = Num(5)
    /\ Len(probe.result.d) = 6

\* The call is for Scenario A's nodes: from the box at (0, 0) to the box at
\* (200, 0), both 100 by 50.
ScenarioNodes ==
    /\ getNodeRect(probe.source).left = Num(0)
    /\ getNodeRect(probe.source).top = Num(0)
    /\ getNodeRect(probe.target).left = Num(200)
    /\ getNodeRect(probe.target).top = Num(0)
    /\ getNodeRect(probe.source).width = Num(100)
    /\ getNodeRect(probe.source).height = Num(50)
    /\ getNodeRect(probe.target).width = Num(100)
    /\ getNodeRect(probe.target).height = Num(50)

\* Scenario A: those nodes with no marker at either end of the edge.
ScenarioA == ScenarioNodes /\ ~hasArrow(probe.markerStart) /\ ~hasArrow(probe.markerEnd)

\* C15: in Scenario A the clipped endpoints are (100, 25) on the source's
\* right side and (200, 25) on the target's left side, and in straight mode
\* the path is the one segment from (105, 25) to (195, 25).
C15_ScenarioA ==
    (Routed /\ ScenarioA) =>
        /\ RoutedEnds.pathStart = Pt(Num(100), Num(25))
        /\ RoutedEnds.pathEnd = Pt(Num(200), Num(25))
        /\ ~probe.curved =>
               probe.result.d = <<"M", Num(105), Num(25),
                                  "L", Num(195), Num(25)>>

\* Scenario A has been routed in straight mode.
C15_Witness == Routed /\ ScenarioA /\ ~probe.curved /\ probe.label = NULL

\* The midpoint of the clipped segment, its direction, and the vector from
\* the midpoint to the control point of the emitted curve.
RoutedMid ==
    Pt(FDiv(FAdd(RoutedEnds.pathStart.x, RoutedEnds.pathEnd.x), Num(2)),
              FDiv(FAdd(RoutedEnds.pathStart.y, RoutedEnds.pathEnd.y), Num(2)))
RoutedDir ==
    Pt(FSub(RoutedEnds.pathEnd.x, RoutedEnds.pathStart.x),
              FSub(RoutedEnds.pathEnd.y, RoutedEnds.pathStart.y))
ControlOffset ==
    Pt(FSub(probe.result.d[5], RoutedMid.x), FSub(probe.result.d[6], RoutedMid.y))

\* clamp(0.15 * L, 5, 50) for the distance L between the clipped endpoints.
ClampedOffset ==
    FMax(Num(5), FMin(Num(50), FMul(RoutedLength, Dec(15, 100))))

\* C16: in curved mode, the clipped endpoints being L > 0 apart, the path is
\* one quadratic curve whose control point is on the perpendicular through
\* the midpoint of the clipped segment, clamp(0.15 * L, 5, 50) away from the
\* midpoint; 15 away for Scenario A's nodes.
C16_ControlPoint ==
    (Routed /\ probe.curved /\ FLt(Zero, RoutedLength)) =>
        /\ Len(probe.result.d) = 8
        /\ probe.result.d[4] = "Q"
        /\ IsZero(DotOf(ControlOffset, RoutedDir))
        /\ SameReal(DotOf(ControlOffset, ControlOffset),
                    FMul(ClampedOffset, ClampedOffset))
        /\ ScenarioNodes =>
               /\ RoutedLength = Num(100)
               /\ probe.result.d[5] = Num(150)
               /\ FSub(probe.result.d[6], Num(25))
                      \in {Num(15), Num(-15)}

\* Scenario A's nodes have been routed in curved mode.
C16_Witness == Routed /\ probe.curved /\ ScenarioNodes /\ Len(probe.result.d) = 8

\* A call of findIntersection has returned.
Intersected == probe # NULL /\ probe.kind = "intersect" /\ probe.result # NULL

\* The point (x, y) is strictly inside the rectangle rect, is on its
\* boundary.
StrictlyInside(rect, x, y) ==
    /\ FLt(rect.left, x) /\ FLt(x, rect.right)
    /\ FLt(rect.top, y) /\ FLt(y, rect.bottom)
OnBoundary(rect, x, y) ==
    \/ /\ x \in {rect.left, rect.right}
       /\ FLe(rect.top, y) /\ FLe(y, rect.bottom)
    \/ /\ y \in {rect.top, rect.bottom}
       /\ FLe(rect.left, x) /\ FLe(x, rect.right)

\* The vector from the call's from-point to its toward-point, and to the
\* point returned.
Toward   == Pt(FSub(probe.to.x, probe.from.x), FSub(probe.to.y, probe.from.y))
Returned == Pt(FSub(probe.result.x, probe.from.x), FSub(probe.result.y, probe.from.y))

\* The point the fraction s of the way from the from-point to the point
\* returned.
Partway(s) ==
    Pt(FAdd(probe.from.x, FMul(s, Returned.x)), FAdd(probe.from.y, FMul(s, Returned.y)))

\* C17: for a from-point strictly inside the rectangle and a toward-point
\* different from it, the point returned is on the rectangle's boundary, on
\* the ray from the from-point through the toward-point (parallel to it and
\* not behind the from-point), and everything before it on that ray is still
\* strictly inside: it is the first boundary crossing.
C17_InsideFirstCrossing ==
    (/\ Intersected
     /\ StrictlyInside(probe.rect, probe.from.x, probe.from.y)
     /\ probe.to # probe.from) =>
        /\ OnBoundary(probe.rect, probe.result.x, probe.result.y)
        /\ SameReal(FMul(Returned.x, Toward.y), FMul(Returned.y, Toward.x))
        /\ FLt(Zero, FAdd(FMul(Returned.x, Toward.x), FMul(Returned.y, Toward.y)))
        /\ \A s \in {Dec(25, 100), Dec(5, 10), Dec(75, 100), Dec(99, 100)} :
               StrictlyInside(probe.rect, Partway(s).x, Partway(s).y)

\* From a point strictly inside, the point returned is on the boundary and
\* not behind the from-point, also when rounding makes every crossing fail
\* its range test and the closest edge is used.
C17_InsideOnBoundary ==
    (/\ Intersected
     /\ StrictlyInside(probe.rect, probe.from.x, probe.from.y)
     /\ probe.to # probe.from) =>
        /\ OnBoundary(probe.rect, probe.result.x, probe.result.y)
        /\ FLe(Zero, FAdd(FMul(Returned.x, Toward.x), FMul(Returned.y, Toward.y)))

\* The call is findIntersection(R, P, P) for a point P outside R.
DegenerateOutside ==
    /\ Intersected
    /\ probe.to = probe.from
    /\ ~IsInside(probe.rect, probe.from.x, probe.from.y)

\* C18: for a point P outside the rectangle, findIntersection(R, P, P)
\* returns a point, with a proper number at both coordinates, that is on the
\* rectangle's perimeter.
C18_DegenerateDirection ==
    DegenerateOutside =>
        /\ ProperNumber(probe.result.x)
        /\ ProperNumber(probe.result.y)
        /\ OnBoundary(probe.rect, probe.result.x, probe.result.y)

\* The call has been made for a point beyond a corner of the rectangle, and
\* has returned that corner.
C18_Witness ==
    /\ DegenerateOutside
    /\ FLt(probe.from.x, probe.rect.left)
    /\ FLt(probe.from.y, probe.rect.top)
    /\ probe.result = Pt(probe.rect.left, probe.rect.top)

\* No edge of the rectangle yields a valid crossing for the call: neither
\* branch of findIntersection finds a point.
NoCrossing ==
    /\ IsInside(probe.rect, probe.from.x, probe.from.y) =>
           insideIntersection(probe.rect, probe.from.x, probe.from.y,
                              Toward.x, Toward.y) = NULL
    /\ outsideIntersection(probe.rect, probe.from.x, probe.from.y,
                           Toward.x, Toward.y) = NULL

\* The points of the four sides of rect closest to (x, y): on each side, the
\* projection of (x, y) kept within the side.
SidePoints(rect, x, y) ==
    {Pt(rect.left, FMax(rect.top, FMin(rect.bottom, y))),
     Pt(rect.right, FMax(rect.top, FMin(rect.bottom, y))),
     Pt(FMax(rect.left, FMin(rect.right, x)), rect.top),
     Pt(FMax(rect.left, FMin(rect.right, x)), rect.bottom)}

\* The square of the distance from the call's from-point to q.
SquareTo(q) ==
    FAdd(FMul(FSub(q.x, probe.from.x), FSub(q.x, probe.from.x)),
         FMul(FSub(q.y, probe.from.y), FSub(q.y, probe.from.y)))

\* C19: when no edge yields a valid crossing, the point returned is the point
\* of the perimeter closest to the from-point: it is the projection of the
\* from-point onto one side, kept within that side, and no side has a point
\* closer to the from-point.
C19_ClosestPerimeterPoint ==
    (Intersected /\ NoCrossing) =>
        /\ probe.result \in SidePoints(probe.rect, probe.from.x, probe.from.y)
        /\ \A q \in SidePoints(probe.rect, probe.from.x, probe.from.y) :
               FLe(SquareTo(probe.result), SquareTo(q))

\* The fallback does return the closest perimeter point for a from-point
\* inside the rectangle.
C19_ClosestFromInside ==
    (Intersected /\ NoCrossing /\ IsInside(probe.rect, probe.from.x, probe.from.y)) =>
        /\ probe.result \in SidePoints(probe.rect, probe.from.x, probe.from.y)
        /\ \A q \in SidePoints(probe.rect, probe.from.x, probe.from.y) :
               FLe(SquareTo(probe.result), SquareTo(q))

\* How far the emitted path starts from the clipped start point, and ends
\* before the clipped end point, both as vectors pointing from the source's
\* end to the target's.
StartShift ==
    Pt(FSub(probe.result.d[2], RoutedEnds.pathStart.x),
       FSub(probe.result.d[3], RoutedEnds.pathStart.y))
EndShift ==
    Pt(FSub(RoutedEnds.pathEnd.x, probe.result.d[5]),
       FSub(RoutedEnds.pathEnd.y, probe.result.d[6]))

\* The vector shift is amount long and points along the clipped segment
\* towards its far end.
ShiftedBy(shift, amount) ==
    /\ IsPositive(DotOf(shift, RoutedDir))
    /\ IsZero(CrossOf(shift, RoutedDir))
    /\ SameReal(DotOf(shift, shift), Num(amount * amount))

\* C20: in straight mode, the clipped endpoints being more than 10 apart, the
\* path starts 20 from the clipped start point towards the end point when
\* the edge has a marker-start and 5 otherwise, and ends 20 before the
\* clipped end point when it has a marker-end and 5 otherwise; at most 10
\* apart, it starts and ends at the clipped points.
C20_StraightClearance ==
    (Routed /\ ~probe.curved) =>
        /\ Len(probe.result.d) = 6
        /\ IF FLt(Num(10), RoutedLength)
           THEN /\ ShiftedBy(StartShift, IF hasArrow(probe.markerStart) THEN 20 ELSE 5)
                /\ ShiftedBy(EndShift, IF hasArrow(probe.markerEnd) THEN 20 ELSE 5)
           ELSE /\ StartShift = Pt(Zero, Zero)
                /\ EndShift = Pt(Zero, Zero)

\* The edge between Scenario A's nodes with an arrow at its end only has been
\* routed straight: from (105, 25) to (180, 25).
C20_Witness ==
    /\ Routed /\ ~probe.curved /\ ScenarioNodes
    /\ hasArrow(probe.markerEnd) /\ ~hasArrow(probe.markerStart)
    /\ probe.result.d = <<"M", Num(105), Num(25),
                          "L", Num(180), Num(25)>>

\* The segment of the emitted straight path, from its first to its last point.
EmittedDir ==
    Pt(FSub(probe.result.d[5], probe.result.d[2]), FSub(probe.result.d[6], probe.result.d[3]))

\* C21: in straight mode, whatever the marker flags, when the clipped
\* endpoints are distinct the emitted segment points the way the clipped
\* segment does: the adjusted endpoints neither coincide nor cross.
C21_ClearanceKeepsDirection ==
    (Routed /\ ~probe.curved /\ RoutedEnds.pathStart # RoutedEnds.pathEnd) =>
        IsPositive(DotOf(EmittedDir, RoutedDir))

\* The midpoint of the emitted straight segment and the control point of the
\* emitted curve.
EmittedMid ==
    Pt(Half(FAdd(probe.result.d[2], probe.result.d[5])),
       Half(FAdd(probe.result.d[3], probe.result.d[6])))
EmittedControl == Pt(probe.result.d[5], probe.result.d[6])

\* Where the label's box is centred horizontally, relative to anchor: the
\* label's translation moved right by half the label's width.
LabelFrom(anchor) ==
    Pt(FSub(FAdd(probe.result.labelT.x, FDiv(probe.label.bbox.width, Num(2))),
            anchor.x),
       FSub(probe.result.labelT.y, anchor.y))

\* half the label's height plus the constant 2
LabelRise == FAdd(FDiv(probe.label.bbox.height, Num(2)), Num(2))

\* The vector v is perpendicular to the clipped segment and amount long.
AlongPerpBy(v, amount) ==
    /\ IsZero(DotOf(v, RoutedDir))
    /\ SameReal(DotOf(v, v), FMul(amount, amount))

\* A labelled connection has been routed as a curve, as a straight segment.
LabelledCurve   == Routed /\ probe.label # NULL /\ Len(probe.result.d) = 8
LabelledSegment == Routed /\ probe.label # NULL /\ Len(probe.result.d) = 6

\* C22, as claimed: the label is centred horizontally, and stands half its
\* height plus 2 along the perpendicular off the control point in curved
\* mode and off the midpoint of the segment in straight mode.
C22_LabelOffPerpendicular ==
    /\ LabelledCurve => AlongPerpBy(LabelFrom(EmittedControl), LabelRise)
    /\ (LabelledSegment /\ FLt(Zero, RoutedLength)) =>
           AlongPerpBy(LabelFrom(EmittedMid), LabelRise)

\* C22, amended: the label is centred horizontally; on a curve it stands
\* half its height plus 2 along the perpendicular off the control point, and
\* on a straight segment (straight mode, or coincident clipped endpoints) it
\* is at the midpoint of the segment with no perpendicular offset.
C22_LabelPlacement ==
    /\ LabelledCurve => AlongPerpBy(LabelFrom(EmittedControl), LabelRise)
    /\ LabelledSegment =>
           IsZero(LabelFrom(EmittedMid).x) /\ IsZero(LabelFrom(EmittedMid).y)

\* Scenario A's edge, labelled and with an arrow at its end, has been routed
\* straight: the label 20 wide is at (132.5, 25), the middle of the segment
\* from (105, 25) to (180, 25) less half its width.
C22_Witness ==
    /\ LabelledSegment /\ ScenarioNodes
    /\ probe.result.d = <<"M", Num(105), Num(25),
                          "L", Num(180), Num(25)>>
    /\ probe.result.labelT = Pt(Dec(1325, 10), Num(25))

\* A call of analyzeEdges has returned.
Analyzed == probe # NULL /\ probe.kind = "index" /\ probe.result # NULL

\* C23: every stored connection has the label at its edge's own position in
\* the label collection, and none when the labels end before that position,
\* whatever edges before it were left out of the index; and no two stored
\* connections have the same label.
C23_LabelByPosition ==
    Analyzed =>
        /\ \A k \in 1..Len(probe.result.index) :
               probe.result.index[k].label =
                   IF probe.result.index[k].edge[2] <= probe.diagram.labelled
                   THEN probe.result.index[k].edge
                   ELSE NoRef
        /\ \A k, l \in 1..Len(probe.result.index) :
               (k # l /\ probe.result.index[k].label # NoRef) =>
                   probe.result.index[k].label # probe.result.index[l].label

\* The index built for two relations and two labels holds the second
\* relation only, the first having an endpoint with no node: the connection
\* has the second label.
C23_Witness ==
    /\ Analyzed
    /\ probe.diagram.labelled = 2
    /\ Len(probe.diagram.relations) = 2
    /\ Len(probe.result.index) = 1
    /\ probe.result.index[1].edge[2] = 2
    /\ probe.result.index[1].label = <<1, 2>>

\* The relation that the stored connection c was built from.
RelationOf(c) == probe.diagram.relations[c.edge[2]]

\* C28: every stored connection has as its source the node rendered for the
\* source class of its relation and as its target the node rendered for the
\* target class, also when a class name is part of another node's identifier
\* or has an underscore in it.
C28_ExactEndpoints ==
    Analyzed =>
        \A k \in 1..Len(probe.result.index) :
            /\ probe.result.index[k].source = <<1, RelationOf(probe.result.index[k])[1]>>
            /\ probe.result.index[k].target = <<1, RelationOf(probe.result.index[k])[2]>>

\* Endpoint resolution is exact for diagrams whose class names are not part
\* of one another and have no underscore.
C28_ExactForPlainNames ==
    (Analyzed /\ probe.diagram.classes = <<<<"A">>, <<"D">>>>) =>
        \A k \in 1..Len(probe.result.index) :
            /\ probe.result.index[k].source = <<1, RelationOf(probe.result.index[k])[1]>>
            /\ probe.result.index[k].target = <<1, RelationOf(probe.result.index[k])[2]>>

\* C24: a step changes the translation offset of a node only if it is a
\* pointer move that reaches handleNodeMouseMove during a session, and the
\* node is the session's: router passes, the curve toggle, presses, releases
\* and the building of the index change no offset, and a pointer move changes
\* the offset of no other node.
C24_OffsetsOnlyByDrag ==
    [][\A g \in (DOMAIN docs) \cap (DOMAIN docs') :
           \A n \in 1..Len(docs[g].nodes) :
               docs'[g].nodes[n].transform # docs[g].nodes[n].transform =>
                   /\ moveApplies
                   /\ dragContext' = dragContext
                   /\ dragContext.node = <<g, n>>
                   /\ moves' = moves + 1]_vars

\* A node has been dragged away and released, in curved mode: its edges have
\* been re-routed, and the other node is where the layout put it.
C24_Witness ==
    /\ shownGen # 0
    /\ dragContext = NULL
    /\ moves > 0
    /\ useCurvedEdges
    /\ docs[shownGen].nodes[1].transform # DefaultSvg.nodes[1].transform
    /\ docs[shownGen].nodes[2].transform = DefaultSvg.nodes[2].transform
    /\ Len(docs[shownGen].edges[1].d) = 8

\* A call of updateConnectedEdges has returned; the documents it was made on,
\* the index it went through and the node it was made for.
Passed == probe # NULL /\ probe.kind = "pass" /\ probe.result # NULL
PassedOn == draggedDocs(probe.diagram, probe.node, probe.offset)
PassedIndex == analyzeEdges(svgOf(probe.diagram), 1)
PassedNode == <<1, probe.node>>

\* The indexed connection c has the node of the pass as its source or target.
Incident(c) == c.source = PassedNode \/ c.target = PassedNode

\* The edges and the labels of the indexed connections incident to the node.
IncidentEdges ==
    {PassedIndex[k].edge : k \in {i \in 1..Len(PassedIndex) : Incident(PassedIndex[i])}}
IncidentLabels ==
    {PassedIndex[k].label : k \in {i \in 1..Len(PassedIndex) : Incident(PassedIndex[i])}}

\* In the documents after, the connection c has the path and the label
\* position it has in single, the documents updateEdgePosition(c) alone gives.
SameRouted(after, c, single) ==
    /\ EdgeAt(after, c.edge) = EdgeAt(single, c.edge)
    /\ Len(EdgeAt(after, c.edge).d) > 1
    /\ c.label # NoRef => LabelAt(after, c.label) = LabelAt(single, c.label)

\* The documents after are the documents before but for the edges and the
\* labels of the connections incident to the node.
OthersKept(after, before) ==
    /\ DOMAIN after = DOMAIN before
    /\ after[1].nodes = before[1].nodes
    /\ \A e \in 1..Len(before[1].edges) :
           <<1, e>> \notin IncidentEdges => after[1].edges[e] = before[1].edges[e]
    /\ \A l \in 1..Len(before[1].labels) :
           <<1, l>> \notin IncidentLabels => after[1].labels[l] = before[1].labels[l]

\* C25: a router pass for a node N gives every indexed connection that has N
\* as its source or target its recomputed path and label position, and leaves
\* the path and the label position of every other edge, indexed or not, as
\* they were.
C25_PassTouchesOnlyIncident ==
    Passed =>
        /\ \A k \in 1..Len(PassedIndex) :
               Incident(PassedIndex[k]) =>
                   SameRouted(probe.result.docs, PassedIndex[k],
                              updateEdgePosition(PassedOn, PassedIndex[k], probe.curved))
        /\ OthersKept(probe.result.docs, PassedOn)

\* A pass for a dragged node of a diagram with two indexed connections and an
\* edge that is not indexed: the connection at the node, which has come in to
\* it, has a new path and label position, the indexed connection between the
\* two other nodes and the edge that is not indexed have their layout paths,
\* and their labels are where they were.
C25_Witness ==
    /\ Passed
    /\ probe.diagram.labelled = 3
    /\ probe.offset # Pt(Num(0), Num(0))
    /\ Len(PassedIndex) = 2
    /\ \E k, l \in 1..Len(PassedIndex) :
           /\ PassedIndex[k].target = PassedNode
           /\ Len(EdgeAt(probe.result.docs, PassedIndex[k].edge).d) > 1
           /\ LabelAt(probe.result.docs, PassedIndex[k].label).transform # NULL
           /\ ~Incident(PassedIndex[l])
           /\ EdgeAt(probe.result.docs, PassedIndex[l].edge).d = <<"layout">>
           /\ LabelAt(probe.result.docs, PassedIndex[l].label).transform = NULL
    /\ \E e \in 1..Len(probe.diagram.relations) :
           /\ \A k \in 1..Len(PassedIndex) : PassedIndex[k].edge # <<1, e>>
           /\ probe.result.docs[1].edges[e].d = <<"layout">>

\* C26: at any time at most one registration of the document's mousemove
\* handler and of its mouseup handler is present, and while a drag session
\* is active both handlers are registered, whatever renders have started or
\* completed since the press.
C26_RegisteredThroughDrag ==
    /\ listeners.mousemove <= 1
    /\ listeners.mouseup <= 1
    /\ dragContext # NULL => (listeners.mousemove = 1 /\ listeners.mouseup = 1)

\* Registrations never accumulate, and a render that starts leaves none
\* registered: cleanup removes what the last installed render added.
C26_NoHandlerAccumulation ==
    /\ [](listeners.mousemove <= 1 /\ listeners.mouseup <= 1)
    /\ [][nextId' # nextId => (listeners'.mousemove = 0 /\ listeners'.mouseup = 0)]_vars

\* C27: whenever a drag session is active, a diagram is displayed and the
\* session's node is a node of it.
C27_SessionOnDisplayed ==
    dragContext # NULL => (shownGen # 0 /\ dragContext.node[1] = shownGen)

\* No step changes the offset of a node of a document that is not displayed.
C27_NoMoveOfReplaced ==
    [][\A g \in (DOMAIN docs) \cap (DOMAIN docs') :
           (g # shownGen /\ dragContext # NULL /\ dragContext' = dragContext
                /\ dragContext.node[1] = g) =>
               docs'[g].nodes[dragContext.node[2]].transform
                   = docs[g].nodes[dragContext.node[2]].transform]_vars

\* In the documents ds, the edge of the indexed connection c is drawn the way
\* the toggle curved says, if its clipped endpoints are distinct: as the
\* curve, or as the straight segment, that the router computes for it.
DrawnAs(ds, c, curved) ==
    clippedEnds(NodeAt(ds, c.source), NodeAt(ds, c.target)).pathStart
        # clippedEnds(NodeAt(ds, c.source), NodeAt(ds, c.target)).pathEnd
    => /\ EdgeAt(ds, c.edge).d
              = routeEdge(NodeAt(ds, c.source), NodeAt(ds, c.target), c.markerStart,
                          c.markerEnd,
                          IF c.label = NoRef THEN NULL ELSE LabelAt(ds, c.label),
                          curved).d
       /\ EdgeAt(ds, c.edge).d[4] = IF curved THEN "Q" ELSE "L"

\* C29: on a page loaded with the toggle off, where the toggle is on only
\* after a curve-toggle event, whenever the toggle is on, whatever drags and
\* re-renders have followed the event, every indexed edge whose clipped
\* endpoints are distinct is drawn as the curve the router computes for it.
C29_StyleFollowsToggle ==
    useCurvedEdges =>
        \A k \in 1..Len(edgeConnections) : DrawnAs(docs, edgeConnections[k], TRUE)

\* The step of the curve toggle itself leaves every indexed edge drawn as the
\* toggle then says.
C29_ToggleRedraws ==
    [][useCurvedEdges' # useCurvedEdges =>
           \A k \in 1..Len(edgeConnections') :
               DrawnAs(docs', edgeConnections'[k], useCurvedEdges')]_vars


-----------------------------------------------------------------------------
(* ------------------- C30: error output and live state ------------------- *)

\* The output area shows a message instead of a diagram: the refusal of an
\* invalid prefix (line 2042) or the catch block's report (line 2058).
ShowsError == output.kind \in {"invalid", "error"}

\* C30: whenever the output area shows an error message, of an invalid
\* prefix or of a rejected render, the Connection Index is empty and no
\* pan/zoom instance is live, whatever the interleaving of render starts
\* and completions.
C30_ErrorLeavesNothing ==
    ShowsError => edgeConnections = <<>> /\ panZoomInstance = NULL

\* The refusal of an invalid prefix is written in the call that ran cleanup,
\* with no suspension in between: while it is shown, nothing is live.
C30_RefusalLeavesNothing ==
    output.kind = "invalid" => edgeConnections = <<>> /\ panZoomInstance = NULL
=============================================================================
